---- MODULE Spec2Model ----
(***************************************************************************)
(* Verification model of the Polymarket sniper scripts.                    *)
(*                                                                         *)
(*   auto_sniper.py : find_next_market, class AutoSniper, main             *)
(*   sniper.py      : class MarketSniper                                   *)
(*                                                                         *)
(* Conventions                                                             *)
(*   - prices are in cents (0.80 is 80, 1.00 is 100), so 1.0 - ask is      *)
(*     100 - ask;                                                          *)
(*   - instants and durations are in whole seconds; a time-to-expiry in    *)
(*     minutes (minutes_remaining) is kept as seconds and every constant   *)
(*     in minutes is multiplied by 60 where it is compared;                *)
(*   - Python's None is the value None below, which differs from every     *)
(*     price, 0 included.                                                  *)
(***************************************************************************)
EXTENDS Integers, Sequences, FiniteSets, TLC

VARIABLES
    prog,       \* which script is running: "auto" (auto_sniper.py) or "sniper" (sniper.py)
    DRY_RUN,    \* the DRY_RUN configuration flag of the running script
    now,        \* the wall clock, in seconds
    listing,    \* what the listing source (Gamma API) answers
    mainPc,     \* position of auto_sniper.main / MarketSniper.run
    market,     \* the candidate find_next_market returned last
    sess,       \* the fields of the live AutoSniper / MarketSniper object
    sessPc,     \* position of monitor_and_snipe / monitor_loop
    orders,     \* the calls made to client.create_and_post_order, in order
    callers,    \* coroutines that invoke execute_order on the session directly
    running,    \* the coroutine that holds the event loop (0: none)
    ret,        \* the value returned by the last call of a function under test
    inbox,      \* messages the stream has delivered that ws.recv() has not returned yet
    hist        \* history of the session, recorded for the properties

vars == <<prog, DRY_RUN, now, listing, mainPc, market, sess, sessPc, orders,
          callers, running, ret, inbox, hist>>

(***************************************************************************)
(* Values                                                                  *)
(***************************************************************************)
\* Python's None: a value outside the range of every price, instant and
\* duration of the model
None == -1000

\* Python truthiness of an optional float: None and 0.0 are both falsy.
Truthy(p) == p # None /\ p # 0

\* Configuration of auto_sniper.py
BUY_PRICE == 100
MIN_WIN_PROBABILITY == 80
TRIGGER_SECONDS == 4
MONITOR_WINDOW_15MIN == 5
MONITOR_WINDOW_DAILY == 30
\* the hard-wired "very low" threshold of the liquidity-absent rule (0.10)
LOW_ASK == 10

\* Configuration of sniper.py
MS_BUY_PRICE == 99
MS_TRIGGER_SECONDS == 1
MS_WIN_PRICE == 50

(***************************************************************************)
(* str.format / f-string format specifications.                            *)
(* format(v, spec) succeeds on a float only for a well-formed float        *)
(* specification, and on None only for the empty specification.            *)
(***************************************************************************)
FloatFormatSpecs == {"", ".0f", ".2f", ".3f", ".4f", "5.1f"}

PyFormat(value, fspec) ==
    IF value = None
    THEN IF fspec = "" THEN "ok" ELSE "TypeError"
    ELSE IF fspec \in FloatFormatSpecs THEN "ok" ELSE "ValueError"

\* The format specification written after the colon in the two replacement
\* fields of the [DEBUG] line of AutoSniper.determine_winning_side.
DebugYesSpec == ".3f if yes_implied else 'N/A'"
DebugNoSpec == ".3f if no_implied else 'N/A'"

Decision(side, token_id, price) ==
    [kind |-> "decision", side |-> side, token_id |-> token_id, price |-> price]
NoDecision == [kind |-> "none", side |-> "", token_id |-> "", price |-> None]
Raised(exc) == [kind |-> "raise", side |-> exc, token_id |-> "", price |-> None]
Pending == [kind |-> "pending", side |-> "", token_id |-> "", price |-> None]

(***************************************************************************)
(* AutoSniper.determine_winning_side                                       *)
(***************************************************************************)
\* the [DEBUG] print: the outcome of formatting its two implied prices
DebugPrint(yes_implied, no_implied) ==
    IF PyFormat(yes_implied, DebugYesSpec) # "ok"
    THEN PyFormat(yes_implied, DebugYesSpec)
    ELSE PyFormat(no_implied, DebugNoSpec)

\* the rules that follow the [DEBUG] print
WinningSideRules(yes_ask, no_ask, yes_token_id, no_token_id) ==
    IF yes_ask = None /\ no_ask # None /\ no_ask < LOW_ASK
    THEN NoDecision
    ELSE IF no_ask = None /\ yes_ask # None /\ yes_ask < LOW_ASK
    THEN NoDecision
    ELSE IF Truthy(yes_ask) /\ yes_ask > MIN_WIN_PROBABILITY /\ yes_ask <= BUY_PRICE
    THEN Decision("YES", yes_token_id, yes_ask)
    ELSE IF Truthy(no_ask) /\ no_ask > MIN_WIN_PROBABILITY /\ no_ask <= BUY_PRICE
    THEN Decision("NO", no_token_id, no_ask)
    ELSE NoDecision

AutoSniper_determine_winning_side(s) ==
    LET yes_ask == s.best_yes_ask
        no_ask == s.best_no_ask
        yes_implied == IF no_ask # None /\ no_ask > 0 THEN 100 - no_ask ELSE None
        no_implied == IF yes_ask # None /\ yes_ask > 0 THEN 100 - yes_ask ELSE None
    IN  IF DebugPrint(yes_implied, no_implied) # "ok"
        THEN Raised(DebugPrint(yes_implied, no_implied))
        ELSE WinningSideRules(yes_ask, no_ask, s.yes_token_id, s.no_token_id)

(***************************************************************************)
(* MarketSniper.determine_winning_side                                     *)
(***************************************************************************)
MarketSniper_determine_winning_side(s) ==
    LET yes_price == s.best_yes_ask
        no_price == s.best_no_ask
    IN  IF Truthy(yes_price) /\ yes_price > MS_WIN_PRICE
        THEN Decision("YES", s.yes_token_id, yes_price)
        ELSE IF Truthy(no_price) /\ no_price > MS_WIN_PRICE
        THEN Decision("NO", s.no_token_id, no_price)
        ELSE NoDecision

(***************************************************************************)
(* Listing records (Gamma API market dictionaries).                        *)
(*   conditionId   : a string, "" when the field is missing                *)
(*   question      : the kind of text of the question                      *)
(*   closed        : the closed flag                                       *)
(*   endDate       : [kind, t]; kind "aware" is an ISO string with an      *)
(*                   offset (or Z), "naive" one without offset, "absent"   *)
(*                   and "bad" a missing and an unparseable field          *)
(*   qTime         : the instant the question text names, None when the    *)
(*                   text holds no "<Month> <Day>, <Hour>am/pm ET"         *)
(*   clobTokenIds, outcomes : the two arrays, as sequences of strings      *)
(*   arrays        : "json" when both array fields parse, "badjson" when   *)
(*                   one of them is a text json.loads rejects              *)
(***************************************************************************)
NoToken == "None"
TokenTruthy(t) == t # NoToken /\ t # ""
CidTruthy(c) == c # ""

\* "up or down" in question.lower()
HasUpOrDown(q) == q \in {"updown", "both"}
\* is_crypto and is_price of the daily pass
IsCryptoPrice(q) == q \in {"daily", "both"}

\* an outcome label that is not a string (a JSON number)
NonStrLabel == "<int>"

\* str.upper() of the outcome labels that occur
Upper(label) ==
    CASE label \in {"Yes", "YES", "yes"} -> "YES"
      [] label \in {"No", "NO", "no"} -> "NO"
      [] label \in {"Up", "UP", "up"} -> "UP"
      [] label \in {"Down", "DOWN", "down"} -> "DOWN"
      [] OTHER -> "OTHER"

NoDatetime == [t |-> None, aware |-> FALSE, valid |-> FALSE]

\* parse_end_date_from_api: datetime.fromisoformat(end_str.replace('Z', '+00:00'))
parse_end_date_from_api(m) ==
    IF m.endDate.kind \in {"aware", "naive"}
    THEN [t |-> m.endDate.t, aware |-> (m.endDate.kind = "aware"), valid |-> TRUE]
    ELSE NoDatetime

\* The question-text parser of auto_sniper.py and scanner.py (the same code
\* in both).  A text that matches time_pattern is given by its five groups:
\* [month_name, day, hour, minute, ampm], minute = None when the ":mm" part
\* is absent; year is now_utc.year.
MonthNames ==
    <<"january", "february", "march", "april", "may", "june", "july", "august",
      "september", "october", "november", "december">>

TitleNames ==
    <<"January", "February", "March", "April", "May", "June", "July", "August",
      "September", "October", "November", "December">>

UpperNames ==
    <<"JANUARY", "FEBRUARY", "MARCH", "APRIL", "MAY", "JUNE", "JULY", "AUGUST",
      "SEPTEMBER", "OCTOBER", "NOVEMBER", "DECEMBER">>

\* str.lower() on the spellings that occur
Lower(w) ==
    IF \E i \in 1..12 : w \in {TitleNames[i], UpperNames[i]}
    THEN MonthNames[CHOOSE i \in 1..12 : w \in {TitleNames[i], UpperNames[i]}]
    ELSE CASE w \in {"AM", "Am"} -> "am"
           [] w \in {"PM", "Pm"} -> "pm"
           [] w \in {"Feb", "FEB"} -> "feb"
           [] w \in {"Down", "DOWN"} -> "down"
           [] OTHER -> w

\* slip: noon and midnight are not special
To24_NoTwelve(hour, ampm) ==
    IF Lower(ampm) = "pm" THEN hour + 12 ELSE hour

\* "if ampm.lower() == 'pm' and hour != 12: hour += 12
\*  elif ampm.lower() == 'am' and hour == 12: hour = 0"
To24(hour, ampm) ==
    IF Lower(ampm) = "pm" /\ hour # 12 THEN hour + 12
    ELSE IF Lower(ampm) = "am" /\ hour = 12 THEN 0
    ELSE hour

\* "months.get(month_name.lower(), 1)"
MonthOf(month_name) ==
    IF \E i \in 1..12 : MonthNames[i] = Lower(month_name)
    THEN CHOOSE i \in 1..12 : MonthNames[i] = Lower(month_name)
    ELSE 1

\* calendar of datetime(): days of the month in the given year (1901..2099)
DaysIn(year, month) ==
    IF month = 2 THEN (IF year % 4 = 0 THEN 29 ELSE 28)
    ELSE IF month \in {4, 6, 9, 11} THEN 30
    ELSE 31

\* datetime(year, month, day, hour, minute, tzinfo=et) raises ValueError
DatetimeRaises(year, month, day, hour, minute) ==
    \/ day < 1 \/ day > DaysIn(year, month)
    \/ hour < 0 \/ hour > 23
    \/ minute < 0 \/ minute > 59

NoWallClock == [valid |-> FALSE, month |-> None, day |-> None, hour |-> None, minute |-> None]

\* the "if match:" block: the Eastern wall clock the text names, or nothing
\* when datetime() rejects it
QuestionTime(text, year) ==
    LET minute == IF text.minute # None THEN text.minute ELSE 0
        hour == To24(text.hour, text.ampm)
        month == MonthOf(text.month_name)
    IN  IF DatetimeRaises(year, month, text.day, hour, minute)
        THEN NoWallClock
        ELSE [valid |-> TRUE, month |-> month, day |-> text.day, hour |-> hour,
              minute |-> minute]

\* parse_market_end_time_from_question on a listing record: m.qTime is the
\* UTC instant of QuestionTime on the text of m.question (None: no match,
\* or datetime() rejected it)
parse_market_end_time_from_question(m) ==
    IF m.qTime # None
    THEN [t |-> m.qTime, aware |-> TRUE, valid |-> TRUE]
    ELSE NoDatetime

\* scanner.parse_market_end_time: the question text first, the structured
\* field (endDateIso or endDate) only when the text gave nothing; a parsed
\* value without offset is taken as UTC
scanner_parse_market_end_time(m) ==
    IF m.qTime # None
    THEN [t |-> m.qTime, aware |-> TRUE, valid |-> TRUE]
    ELSE IF m.endDate.kind \in {"aware", "naive"}
    THEN [t |-> m.endDate.t, aware |-> TRUE, valid |-> TRUE]
    ELSE NoDatetime

\* find_next_market, 15-minute pass: "end_time = parse_end_date_from_api(m);
\* if not end_time: end_time = parse_market_end_time_from_question(m, now_utc)"
EndTime15(m) ==
    LET api == parse_end_date_from_api(m)
    IN  IF api.valid THEN api ELSE parse_market_end_time_from_question(m)

\* extract_token_ids: the loop over enumerate(outcomes); a later label of the
\* same side overwrites an earlier one.  outcome.upper() of a label that is
\* not a string raises AttributeError, which the function does not catch.
\* The result is <<yes_token, no_token, exception>>.
RECURSIVE ExtractLoop(_, _, _, _, _)
ExtractLoop(outcomes, token_ids, i, yes_token, no_token) ==
    IF i > Len(outcomes)
    THEN <<yes_token, no_token, "ok">>
    ELSE IF i > Len(token_ids)
    THEN ExtractLoop(outcomes, token_ids, i + 1, yes_token, no_token)
    ELSE IF outcomes[i] = NonStrLabel
    THEN <<yes_token, no_token, "AttributeError">>
    ELSE IF Upper(outcomes[i]) \in {"YES", "UP"}
    THEN ExtractLoop(outcomes, token_ids, i + 1, token_ids[i], no_token)
    ELSE IF Upper(outcomes[i]) \in {"NO", "DOWN"}
    THEN ExtractLoop(outcomes, token_ids, i + 1, yes_token, token_ids[i])
    ELSE ExtractLoop(outcomes, token_ids, i + 1, yes_token, no_token)

\* m.arrays = "badjson": one of the two fields is a text that starts with
\* "[" and is not JSON; json.loads raises JSONDecodeError, which is caught
\* and leaves (None, None)
extract_token_ids(m) ==
    IF m.arrays = "badjson"
    THEN <<NoToken, NoToken, "ok">>
    ELSE IF m.clobTokenIds # <<>> /\ m.outcomes # <<>>
    THEN ExtractLoop(m.outcomes, m.clobTokenIds, 1, NoToken, NoToken)
    ELSE <<NoToken, NoToken, "ok">>

(***************************************************************************)
(* find_next_market                                                        *)
(***************************************************************************)
\* 0 < time_remaining <= 300 (minutes)
InHorizon15(time_remaining) == 0 < time_remaining /\ time_remaining <= 300 * 60
\* 0 < time_remaining <= 1440 (minutes)
InHorizonDaily(time_remaining) == 0 < time_remaining /\ time_remaining <= 1440 * 60

Candidate(m, toks, end_time, time_remaining, market_type, monitor_window) ==
    [question |-> m.question,
     condition_id |-> m.conditionId,
     yes_token_id |-> toks[1],
     no_token_id |-> toks[2],
     end_time |-> end_time.t,
     minutes_remaining |-> time_remaining,
     market_type |-> market_type,
     monitor_window |-> monitor_window]

\* what "if cid and cid not in seen: seen.add(cid)" leaves in seen (15-minute pass)
Seen15Add(seen, cid) == seen \cup {cid}

\* The loop "for m in all_markets" of the 15-minute pass.  The result is the
\* candidate list, or the exception that left the loop.
RECURSIVE Pass15(_, _, _, _)
Pass15(ms, now_utc, seen, candidates) ==
    IF ms = <<>>
    THEN [candidates |-> candidates, exc |-> "ok"]
    ELSE LET m == Head(ms)
             cid == m.conditionId
         IN  IF ~(CidTruthy(cid) /\ cid \notin seen)
             THEN Pass15(Tail(ms), now_utc, seen, candidates)
             ELSE IF m.question = "null"
             THEN [candidates |-> candidates, exc |-> "AttributeError"]
             ELSE IF ~HasUpOrDown(m.question) \/ m.closed
             THEN Pass15(Tail(ms), now_utc, Seen15Add(seen, cid), candidates)
             ELSE LET end_time == EndTime15(m)
                  IN  IF ~end_time.valid
                      THEN Pass15(Tail(ms), now_utc, Seen15Add(seen, cid), candidates)
                      ELSE IF ~end_time.aware
                      THEN [candidates |-> candidates, exc |-> "TypeError"]
                      ELSE LET time_remaining == end_time.t - now_utc
                               toks == extract_token_ids(m)
                           IN  IF InHorizon15(time_remaining) /\ toks[3] # "ok"
                               THEN [candidates |-> candidates, exc |-> toks[3]]
                               ELSE IF InHorizon15(time_remaining)
                                  /\ TokenTruthy(toks[1]) /\ TokenTruthy(toks[2])
                               THEN Pass15(Tail(ms), now_utc, Seen15Add(seen, cid),
                                           Append(candidates,
                                                  Candidate(m, toks, end_time, time_remaining,
                                                            "15min", MONITOR_WINDOW_15MIN)))
                               ELSE Pass15(Tail(ms), now_utc, Seen15Add(seen, cid), candidates)

\* slip: the daily pass starts from an empty seen set
DailySeen_Empty(candidates) == {}

\* seen = set(c["condition_id"] for c in candidates), at the start of the daily pass
DailySeen(candidates) == {candidates[i].condition_id : i \in 1..Len(candidates)}

\* The loop "for m in active_markets" of the daily pass; an exception ends
\* the pass (except Exception: pass) and keeps what was appended before it.
RECURSIVE PassDaily(_, _, _, _)
PassDaily(ms, now_utc, seen, candidates) ==
    IF ms = <<>>
    THEN candidates
    ELSE LET m == Head(ms)
             cid == m.conditionId
         IN  IF ~(CidTruthy(cid) /\ cid \notin seen)
             THEN PassDaily(Tail(ms), now_utc, seen, candidates)
             ELSE IF m.question = "null"
             THEN candidates
             ELSE IF ~IsCryptoPrice(m.question)
             THEN PassDaily(Tail(ms), now_utc, seen, candidates)
             ELSE LET end_time == parse_end_date_from_api(m)
                  IN  IF ~end_time.valid
                      THEN PassDaily(Tail(ms), now_utc, seen, candidates)
                      ELSE IF ~end_time.aware
                      THEN candidates
                      ELSE LET time_remaining == end_time.t - now_utc
                               toks == extract_token_ids(m)
                           IN  IF InHorizonDaily(time_remaining) /\ toks[3] # "ok"
                               THEN candidates
                               ELSE IF InHorizonDaily(time_remaining)
                                  /\ TokenTruthy(toks[1]) /\ TokenTruthy(toks[2])
                               THEN PassDaily(Tail(ms), now_utc, seen \cup {cid},
                                              Append(candidates,
                                                     Candidate(m, toks, end_time, time_remaining,
                                                               "daily", MONITOR_WINDOW_DAILY)))
                               ELSE PassDaily(Tail(ms), now_utc, seen, candidates)

\* list.sort(key=minutes_remaining): a stable insertion into a sorted list
RECURSIVE InsertSorted(_, _)
InsertSorted(c, sorted) ==
    IF sorted = <<>>
    THEN <<c>>
    ELSE IF c.minutes_remaining < Head(sorted).minutes_remaining
    THEN <<c>> \o sorted
    ELSE <<Head(sorted)>> \o InsertSorted(c, Tail(sorted))

RECURSIVE SortByRemaining(_)
SortByRemaining(cs) ==
    IF cs = <<>>
    THEN <<>>
    ELSE InsertSorted(cs[Len(cs)], SortByRemaining(SubSeq(cs, 1, Len(cs) - 1)))

\* slip: the candidate list is not sorted before its head is returned
SoonestOf_Unsorted(candidates) == candidates[1]

\* candidates.sort(...); return candidates[0]
SoonestOf(candidates) == SortByRemaining(candidates)[1]

NoMarket == [question |-> "", condition_id |-> "", yes_token_id |-> NoToken,
             no_token_id |-> NoToken, end_time |-> None, minutes_remaining |-> None,
             market_type |-> "", monitor_window |-> None]

\* search_markets on the answer of one query: resp.kind is "ok" (status 200,
\* resp.markets the markets of all its events), "status" (another status:
\* the empty list) or "raise" (client.get or response.json() raised)
search_markets(resp) ==
    IF resp.kind = "ok"
    THEN [kind |-> "ok", markets |-> resp.markets]
    ELSE IF resp.kind = "status"
    THEN [kind |-> "ok", markets |-> <<>>]
    ELSE [kind |-> "raise", markets |-> <<>>]

\* slip: an exception of one query ends the loop over the search terms
OnQueryException_Abort(rest) == <<>>

\* "except Exception: pass" inside "for term in search_terms": the loop goes
\* on with the remaining terms
OnQueryException(rest) == rest

\* The loop "for term in search_terms"; responses[i] is the answer the i-th
\* term gets.  dispatched counts the calls of search_markets.
RECURSIVE SearchLoop(_, _, _)
SearchLoop(responses, all_markets, dispatched) ==
    IF responses = <<>>
    THEN [all_markets |-> all_markets, dispatched |-> dispatched]
    ELSE LET r == search_markets(Head(responses))
         IN  IF r.kind = "raise"
             THEN SearchLoop(OnQueryException(Tail(responses)), all_markets, dispatched + 1)
             ELSE SearchLoop(Tail(responses), all_markets \o r.markets, dispatched + 1)

\* all_markets after the loop
AllMarkets(lst) == SearchLoop(lst.responses, <<>>, 0).all_markets

\* The candidate list of one find_next_market call, with the exception that
\* leaves the function, if any.  listing.responses are the answers to the
\* search terms; listing.active is the answer of get_active_markets,
\* listing.activeOk whether that query answered (when it raises, the
\* "except Exception: pass" of the daily pass skips the pass).
Candidates(lst, now_utc) ==
    LET p15 == Pass15(AllMarkets(lst), now_utc, {}, <<>>)
    IN  IF p15.exc # "ok"
        THEN p15
        ELSE IF lst.activeOk
        THEN [candidates |-> PassDaily(lst.active, now_utc, DailySeen(p15.candidates),
                                       p15.candidates),
              exc |-> "ok"]
        ELSE p15

find_next_market(lst, now_utc) ==
    LET r == Candidates(lst, now_utc)
        dispatched == SearchLoop(lst.responses, <<>>, 0).dispatched
    IN  IF r.exc # "ok"
        THEN [kind |-> "raise", market |-> NoMarket, candidates |-> <<>>,
              dispatched |-> dispatched]
        ELSE IF r.candidates # <<>>
        THEN [kind |-> "market", market |-> SoonestOf(r.candidates),
              candidates |-> r.candidates, dispatched |-> dispatched]
        ELSE [kind |-> "none", market |-> NoMarket, candidates |-> <<>>,
              dispatched |-> dispatched]

\* what the notifier command does when send_notification runs it: it shows
\* the alert, it exits with an error status, or it cannot be started
\* (subprocess.run raises, e.g. FileNotFoundError where osascript is absent)
NotifyOutcomes == {"shown", "nonzero", "missing"}

\* slip: subprocess.run outside the try block
send_notification_NoGuard(outcome) ==
    IF outcome = "missing" THEN "raised" ELSE "returned"

\* send_notification: subprocess.run(..., check=False) inside
\* "try: ... except Exception: pass"
send_notification(outcome) == "returned"

\* found_15min: a local of the call, False at its start, True once the
\* 15-minute pass has appended a candidate
found_15min(lst, now_utc) ==
    LET p15 == Pass15(AllMarkets(lst), now_utc, {}, <<>>)
    IN  p15.exc = "ok" /\ p15.candidates # <<>>

\* find_next_market with its alert: "if found_15min: send_notification(...)"
\* runs between the two passes; alerted says whether the notifier was
\* called, result is what the call gives (find_next_market above is the
\* call whose notifier returned)
find_next_market_alert(lst, now_utc, outcome) ==
    LET r == find_next_market(lst, now_utc)
        found == found_15min(lst, now_utc)
    IN  [outcome |-> outcome,
         found |-> found,
         alerted |-> found,
         result |-> IF found /\ send_notification(outcome) = "raised"
                    THEN [kind |-> "raise", market |-> NoMarket, candidates |-> <<>>,
                          dispatched |-> r.dispatched]
                    ELSE r]

(***************************************************************************)
(* The session object: AutoSniper.__init__ / MarketSniper.__init__         *)
(* (MarketSniper keeps yes_best_ask / no_best_ask and reads its token ids  *)
(* and end time from the module constants; the same fields hold them).     *)
(* receive_task is the task monitor_loop creates for receive_messages:     *)
(* "none" before it exists, "running", or "failed" once an exception left  *)
(* it.                                                                     *)
(***************************************************************************)
NoSession ==
    [sid |-> 0, condition_id |-> "", yes_token_id |-> NoToken, no_token_id |-> NoToken,
     end_time |-> None,
     best_yes_ask |-> None, best_yes_bid |-> None,
     best_no_ask |-> None, best_no_bid |-> None,
     order_executed |-> FALSE, client |-> FALSE, seconds_remaining |-> None,
     receive_task |-> "none"]

NewSniper(market_config, sid) ==
    [sid |-> sid,
     condition_id |-> market_config.condition_id,
     yes_token_id |-> market_config.yes_token_id,
     no_token_id |-> market_config.no_token_id,
     end_time |-> market_config.end_time,
     best_yes_ask |-> None, best_yes_bid |-> None,
     best_no_ask |-> None, best_no_bid |-> None,
     order_executed |-> FALSE, client |-> FALSE, seconds_remaining |-> None,
     receive_task |-> "none"]

\* one answered query that found nothing
OkResponse(markets) == [kind |-> "ok", markets |-> markets]

EmptyListing == [responses |-> <<OkResponse(<<>>)>>, active |-> <<>>, activeOk |-> TRUE]
\* outcome: how the session ended; armed: a tick fell in the trigger zone;
\* decidedAt: the seconds_remaining of the last such tick; qualAt: the
\* time-to-expiry at which the last message left a qualifying ask in the
\* book (TRIGGER_SECONDS + 1 for any earlier time, None if it left none);
\* startRemaining: the time-to-expiry when the session was created
\* cause: what made the session FAILED inside its loop ("disconnect": the
\* connection failed, "badjson": a message that is not JSON); backlog: the
\* messages still waiting in the stream buffer at the last armed tick;
\* fetched: how fetch_initial_prices ended ("ok": both books answered with
\* status 200 and were read, "failed": otherwise, "": not called yet)
NoHist == [armed |-> FALSE, decidedAt |-> None, qualAt |-> None, startRemaining |-> None,
           outcome |-> "", cause |-> "", backlog |-> None, fetched |-> ""]

(***************************************************************************)
(* Bounds                                                                  *)
(***************************************************************************)
MaxSearch == 2      \* records in all_markets
MaxActive == 2      \* records in active_markets

(***************************************************************************)
(* SpecDecide: the two determine_winning_side functions on every book      *)
(***************************************************************************)
PriceLevels == {0, 2, 10, 50, 80, 81, 95, 99, 100, 101}

TestMarket == [question |-> "updown", condition_id |-> "c1",
               yes_token_id |-> "c1-yes", no_token_id |-> "c1-no",
               end_time |-> 0, minutes_remaining |-> 0,
               market_type |-> "15min", monitor_window |-> MONITOR_WINDOW_15MIN]

InitDecide ==
    /\ prog \in {"auto", "sniper"}
    /\ DRY_RUN = FALSE
    /\ now = 0
    /\ listing = EmptyListing
    /\ mainPc = "decide"
    /\ market = NoMarket
    /\ \E ya \in PriceLevels \cup {None}, na \in PriceLevels \cup {None} :
          sess = [NewSniper(TestMarket, 1) EXCEPT !.best_yes_ask = ya, !.best_no_ask = na]
    /\ sessPc = "none"
    /\ orders = <<>>
    /\ callers = <<>>
    /\ running = 0
    /\ ret = Pending
    /\ inbox = <<>>
    /\ hist = NoHist

DecideAuto ==
    /\ mainPc = "decide" /\ prog = "auto" /\ ret = Pending
    /\ ret' = AutoSniper_determine_winning_side(sess)
    /\ UNCHANGED <<inbox, prog, DRY_RUN, now, listing, mainPc, market, sess, sessPc, orders,
                   callers, running, hist>>

DecideSniper ==
    /\ mainPc = "decide" /\ prog = "sniper" /\ ret = Pending
    /\ ret' = MarketSniper_determine_winning_side(sess)
    /\ UNCHANGED <<inbox, prog, DRY_RUN, now, listing, mainPc, market, sess, sessPc, orders,
                   callers, running, hist>>

DecideNext == DecideAuto \/ DecideSniper

SpecDecide == InitDecide /\ [][DecideNext]_vars

(***************************************************************************)
(* SpecPure: AutoSniper.determine_winning_side called MaxCalls times in a  *)
(* row on one session; ret is the sequence of what the calls gave          *)
(***************************************************************************)
MaxCalls == 2

\* slip: the default of a missing ask is written back to the session
AfterDecide_StoresDefault(s) ==
    [s EXCEPT !.best_yes_ask = IF @ = None THEN 0 ELSE @,
              !.best_no_ask = IF @ = None THEN 0 ELSE @]

\* the session after a call: determine_winning_side reads self.best_yes_ask,
\* self.best_no_ask and the two token ids and assigns only local names
AfterDecide(s) == s

InitPure ==
    /\ prog = "auto"
    /\ DRY_RUN = FALSE
    /\ now = 0
    /\ listing = EmptyListing
    /\ mainPc = "pure"
    /\ market = NoMarket
    /\ \E ya \in PriceLevels \cup {None}, na \in PriceLevels \cup {None}, fired \in BOOLEAN :
          sess = [NewSniper(TestMarket, 1) EXCEPT !.best_yes_ask = ya, !.best_no_ask = na,
                                                  !.best_yes_bid = 1, !.best_no_bid = 1,
                                                  !.order_executed = fired]
    /\ sessPc = "none"
    /\ orders = <<>>
    /\ callers = <<>>
    /\ running = 0
    /\ ret = <<>>
    /\ inbox = <<>>
    /\ hist = NoHist

DecideAgain ==
    /\ mainPc = "pure" /\ Len(ret) < MaxCalls
    /\ ret' = Append(ret, AutoSniper_determine_winning_side(sess))
    /\ sess' = AfterDecide(sess)
    /\ UNCHANGED <<inbox, prog, DRY_RUN, now, listing, mainPc, market, sessPc, orders,
                   callers, running, hist>>

PureNext == DecideAgain

SpecPure == InitPure /\ [][PureNext]_vars

(***************************************************************************)
(* SpecScan: find_next_market on every listing of at most MaxSearch search *)
(* results and MaxActive active markets                                    *)
(***************************************************************************)
ScanCids == {"c1", "c2"}
ScanQuestions == {"both", "other"}
ScanEnds == {9, 10, 13, 410}

TokenIdsOf(cid) ==
    CASE cid = "c1" -> <<"c1-yes", "c1-no">>
      [] cid = "c2" -> <<"c2-yes", "c2-no">>
      [] cid = "c3" -> <<"c3-yes", "c3-no">>
      [] OTHER -> <<>>

ScanRecords ==
    { [conditionId |-> c, question |-> q, closed |-> FALSE,
       endDate |-> [kind |-> "aware", t |-> e], qTime |-> None,
       clobTokenIds |-> TokenIdsOf(c), outcomes |-> <<"Up", "Down">>,
       arrays |-> "json"] :
      c \in ScanCids, q \in ScanQuestions, e \in ScanEnds }

SeqsUpTo(S, n) == UNION { [1..k -> S] : k \in 0..n }

InitScan ==
    /\ prog = "auto"
    /\ DRY_RUN = FALSE
    /\ now = 10
    /\ \E srch \in SeqsUpTo(ScanRecords, MaxSearch), act \in SeqsUpTo(ScanRecords, MaxActive) :
          listing = [responses |-> <<OkResponse(srch)>>, active |-> act, activeOk |-> TRUE]
    /\ mainPc = "scantest"
    /\ market = NoMarket
    /\ sess = NoSession
    /\ sessPc = "none"
    /\ orders = <<>>
    /\ callers = <<>>
    /\ running = 0
    /\ ret = Pending
    /\ inbox = <<>>
    /\ hist = NoHist

ScanCall ==
    /\ mainPc = "scantest" /\ ret = Pending
    /\ ret' = find_next_market(listing, now)
    /\ market' = ret'.market
    /\ UNCHANGED <<inbox, prog, DRY_RUN, now, listing, mainPc, sess, sessPc, orders,
                   callers, running, hist>>

ScanNext == ScanCall

SpecScan == InitScan /\ [][ScanNext]_vars

(***************************************************************************)
(* SpecRecords: find_next_market on listings that hold records with one    *)
(* defect each next to well-formed ones                                    *)
(***************************************************************************)
RecordKinds == {"closed", "naive", "baddate", "nullq", "badjson", "intlabel",
                "reptoken", "replabel"}
ValidEnds == {13, 20}
DefectEnd == 12

\* a record of condition c that ends at e; k names its defect ("valid": none)
ListingRecord(c, e, k) ==
    [conditionId |-> c,
     question |-> IF k = "nullq" THEN "null" ELSE "both",
     closed |-> (k = "closed"),
     endDate |-> [kind |-> CASE k = "naive" -> "naive"
                             [] k = "baddate" -> "bad"
                             [] OTHER -> "aware",
                  t |-> e],
     qTime |-> None,
     clobTokenIds |-> IF k = "reptoken" THEN <<"t1", "t1">> ELSE TokenIdsOf(c),
     outcomes |-> CASE k = "intlabel" -> <<NonStrLabel, "Down">>
                    [] k = "replabel" -> <<"Up", "yes">>
                    [] OTHER -> <<"Up", "Down">>,
     arrays |-> IF k = "badjson" THEN "badjson" ELSE "json"]

DefectRecords == { ListingRecord("c1", DefectEnd, k) : k \in RecordKinds }
ValidRecords == { ListingRecord(c, e, "valid") : c \in ScanCids, e \in ValidEnds }

InitRecords ==
    /\ prog = "auto"
    /\ DRY_RUN = FALSE
    /\ now = 10
    /\ \E srch \in SeqsUpTo(DefectRecords \cup ValidRecords, MaxSearch),
          act \in SeqsUpTo(DefectRecords \cup ValidRecords, MaxActive) :
          listing = [responses |-> <<OkResponse(srch)>>, active |-> act, activeOk |-> TRUE]
    /\ mainPc = "scantest"
    /\ market = NoMarket
    /\ sess = NoSession
    /\ sessPc = "none"
    /\ orders = <<>>
    /\ callers = <<>>
    /\ running = 0
    /\ ret = Pending
    /\ inbox = <<>>
    /\ hist = NoHist

SpecRecords == InitRecords /\ [][ScanNext]_vars

(***************************************************************************)
(* SpecQuery: find_next_market when search queries fail                    *)
(***************************************************************************)
MaxQueries == 3     \* search terms dispatched in one scan

QueryResponses ==
    { [kind |-> "raise", markets |-> <<>>], [kind |-> "status", markets |-> <<>>],
      OkResponse(<<>>),
      OkResponse(<<ListingRecord("c1", 13, "valid")>>),
      OkResponse(<<ListingRecord("c2", 20, "valid")>>) }

InitQuery ==
    /\ prog = "auto"
    /\ DRY_RUN = FALSE
    /\ now = 10
    /\ \E rs \in SeqsUpTo(QueryResponses, MaxQueries), ok \in BOOLEAN :
          /\ rs # <<>>
          /\ listing = [responses |-> rs, active |-> <<>>, activeOk |-> ok]
    /\ mainPc = "scantest"
    /\ market = NoMarket
    /\ sess = NoSession
    /\ sessPc = "none"
    /\ orders = <<>>
    /\ callers = <<>>
    /\ running = 0
    /\ ret = Pending
    /\ inbox = <<>>
    /\ hist = NoHist

SpecQuery == InitQuery /\ [][ScanNext]_vars

(***************************************************************************)
(* Order book updates                                                      *)
(* A book message names one asset and carries its asks and bids; here it   *)
(* is [asset_id, ask, bid] with ask / bid the first level of the array:    *)
(* its price, None for an empty array, MissingPrice for a level without a  *)
(* "price" key, Unreadable for a price float() rejects.                    *)
(***************************************************************************)
MissingPrice == -2000
Unreadable == -3000

\* float(levels[0].get("price", 0)) if levels else None, for a readable level
BestPrice(level) == IF level = MissingPrice THEN 0 ELSE level

\* The two assignments "best ask = ...; best bid = ..." on the stored pair
\* <<old_ask, old_bid>>: float() raises at the first unreadable price and the
\* assignments before it stay.
ReadLevels(data, old_ask, old_bid) ==
    IF data.ask = Unreadable
    THEN [ask |-> old_ask, bid |-> old_bid, raised |-> TRUE]
    ELSE IF data.bid = Unreadable
    THEN [ask |-> BestPrice(data.ask), bid |-> old_bid, raised |-> TRUE]
    ELSE [ask |-> BestPrice(data.ask), bid |-> BestPrice(data.bid), raised |-> FALSE]

\* AutoSniper.process_orderbook; "except Exception: pass" ends the call
process_orderbook(s, data) ==
    IF data.asset_id = s.yes_token_id
    THEN LET r == ReadLevels(data, s.best_yes_ask, s.best_yes_bid)
         IN  [s EXCEPT !.best_yes_ask = r.ask, !.best_yes_bid = r.bid]
    ELSE IF data.asset_id = s.no_token_id
    THEN LET r == ReadLevels(data, s.best_no_ask, s.best_no_bid)
         IN  [s EXCEPT !.best_no_ask = r.ask, !.best_no_bid = r.bid]
    ELSE s

\* MarketSniper.process_orderbook_update reads the ask before it looks at
\* the asset id and catches nothing
UpdateRaises(data) == data.ask = Unreadable

\* MarketSniper.process_orderbook_update (asks only)
process_orderbook_update(s, data) ==
    IF UpdateRaises(data)
    THEN s
    ELSE IF data.asset_id = s.yes_token_id
    THEN [s EXCEPT !.best_yes_ask = BestPrice(data.ask)]
    ELSE IF data.asset_id = s.no_token_id
    THEN [s EXCEPT !.best_no_ask = BestPrice(data.ask)]
    ELSE s

\* AutoSniper.fetch_initial_prices: the two REST answers, each a book
\* [ask, bid] or NoAnswer (status other than 200); an exception (a request
\* that raises, an unreadable price) ends the function where it occurs
NoAnswer == [ask |-> None, bid |-> None, ok |-> FALSE]

fetch_initial_prices(s, yes_resp, no_resp) ==
    LET y == IF yes_resp.ok
             THEN ReadLevels(yes_resp, s.best_yes_ask, s.best_yes_bid)
             ELSE [ask |-> s.best_yes_ask, bid |-> s.best_yes_bid, raised |-> FALSE]
        s1 == [s EXCEPT !.best_yes_ask = y.ask, !.best_yes_bid = y.bid]
        n == ReadLevels(no_resp, s.best_no_ask, s.best_no_bid)
    IN  IF y.raised \/ ~no_resp.ok
        THEN s1
        ELSE [s1 EXCEPT !.best_no_ask = n.ask, !.best_no_bid = n.bid]

(***************************************************************************)
(* execute_order (AutoSniper and MarketSniper)                             *)
(***************************************************************************)
BUY_AMOUNT == 10
MS_BUY_AMOUNT == 10

\* the OrderArgs handed to client.create_and_post_order; size is in
\* hundredths of a share; at is the seconds_remaining of the tick that
\* fired (None for a direct call), t the instant of the call; order_type is
\* the order_type argument: sniper.py passes OrderType.FOK, auto_sniper.py
\* passes none and no other statement of the call names an order type
NoOrderType == "unset"

OrderArgs(p, s, dec, at, t) ==
    [sid |-> s.sid,
     condition_id |-> s.condition_id,
     token_id |-> dec.token_id,
     side |-> "BUY",
     price |-> IF p = "auto" THEN dec.price ELSE MS_BUY_PRICE,
     size |-> IF p = "auto" THEN (BUY_AMOUNT * 10000) \div dec.price
                            ELSE (MS_BUY_AMOUNT * 10000) \div MS_BUY_PRICE,
     order_type |-> IF p = "auto" THEN NoOrderType ELSE "FOK",
     at |-> at,
     t |-> t]

\* what create_and_post_order does with a call: it returns a result, or it
\* raises (the order is rejected, the transport fails)
OrderResults == {"ok", "raised"}

\* the entry of the call log: the arguments and how the call ended
Posted(args, res) ==
    [f \in DOMAIN args \cup {"result"} |-> IF f = "result" THEN res ELSE args[f]]

\* slip: the guard on the fired flag is missing
AlreadyExecuted_NoGuard(s) == FALSE

\* "if self.order_executed: return"
AlreadyExecuted(s) == s.order_executed

\* "self.order_executed = True"
SetExecuted(s) == [s EXCEPT !.order_executed = TRUE]

\* a division by a zero price or a missing client raises before the call
RaisesBeforeCall(p, s, dec) == (p = "auto" /\ dec.price = 0) \/ ~s.client

\* the try block: build the OrderArgs and call create_and_post_order
Submit(p, s, ords, dec, at, t, res) ==
    IF RaisesBeforeCall(p, s, dec)
    THEN ords
    ELSE Append(ords, Posted(OrderArgs(p, s, dec, at, t), res))

\* slip: the handler clears the fired flag so that the order is tried again
OnOrderError_Retry(s) == [s EXCEPT !.order_executed = FALSE]

\* "except Exception as e: print(...)": the error is reported, nothing else
OnOrderError(s) == s

\* the session after the try block
AfterSubmit(p, s, dec, res) ==
    IF RaisesBeforeCall(p, s, dec) \/ res = "raised" THEN OnOrderError(s) ELSE s

\* the whole coroutine: it holds no await, so it runs from its first to its
\* last statement without giving up the event loop
execute_order(p, dry, s, ords, dec, at, t, res) ==
    IF AlreadyExecuted(s)
    THEN [sess |-> s, orders |-> ords]
    ELSE IF dry
    THEN [sess |-> SetExecuted(s), orders |-> ords]
    ELSE [sess |-> AfterSubmit(p, SetExecuted(s), dec, res),
          orders |-> Submit(p, SetExecuted(s), ords, dec, at, t, res)]

(***************************************************************************)
(* More bounds                                                             *)
(***************************************************************************)
MaxTime == 120       \* the clock stops advancing past this instant
MaxSessions == 2     \* sessions main starts in one run
MaxScanDelay == 1    \* seconds one find_next_market call may take
NumCallers == 2      \* coroutines calling execute_order directly
MaxInbox == 2        \* messages the stream buffer holds

RUN_ONCE == FALSE

\* first levels [ask, bid] that REST answers and stream messages carry
StreamLevels == { [ask |-> None, bid |-> None], [ask |-> 5, bid |-> 4],
                  [ask |-> 95, bid |-> 94], [ask |-> 100, bid |-> 99],
                  [ask |-> Unreadable, bid |-> Unreadable] }

Messages(s) ==
    { [asset_id |-> a, ask |-> l.ask, bid |-> l.bid] :
        a \in {s.yes_token_id, s.no_token_id, "other"}, l \in StreamLevels }

Answers == {NoAnswer} \cup { [ask |-> l.ask, bid |-> l.bid, ok |-> TRUE] : l \in StreamLevels }

\* an ask that is present, above MIN_WIN_PROBABILITY and at most BUY_PRICE
Qualifies(ask) == ask # None /\ ask > MIN_WIN_PROBABILITY /\ ask <= BUY_PRICE

(***************************************************************************)
(* AutoSniper.monitor_and_snipe                                            *)
(***************************************************************************)
\* slip: the expiry test is strict
Expired_Strict(seconds_remaining) == seconds_remaining < 0

\* "if seconds_remaining <= 0: break"
Expired(seconds_remaining) == seconds_remaining <= 0

\* "if 0 < seconds_remaining <= TRIGGER_SECONDS"
InTriggerZone(seconds_remaining) ==
    0 < seconds_remaining /\ seconds_remaining <= TRIGGER_SECONDS

EndSession(outcome) ==
    /\ sessPc' = "done"
    /\ hist' = [hist EXCEPT !.outcome = outcome]

\* "except Exception as e: ... return False" reached from inside the loop
EndFailed(cause) ==
    /\ sessPc' = "done"
    /\ hist' = [hist EXCEPT !.outcome = "FAILED", !.cause = cause]

\* slip: the stream is opened before the books are fetched
AfterInitPc_SkipFetch == "connect"

\* what monitor_and_snipe does after init_client succeeded:
\* "await self.fetch_initial_prices()", before websockets.connect
AfterInitPc == "fetch"

\* whether both REST answers were read to the end
FetchOk(yes_resp, no_resp) ==
    /\ yes_resp.ok /\ no_resp.ok
    /\ Unreadable \notin {yes_resp.ask, yes_resp.bid, no_resp.ask, no_resp.bid}

\* init_client: False without PRIVATE_KEY or when ClobClient raises
AutoInitClient(ok) ==
    /\ prog = "auto" /\ sessPc = "init" /\ running = 0
    /\ IF ok
       THEN /\ sess' = [sess EXCEPT !.client = TRUE]
            /\ sessPc' = AfterInitPc
            /\ hist' = hist
       ELSE /\ sess' = sess
            /\ EndSession("FAILED")
    /\ UNCHANGED <<inbox, prog, DRY_RUN, now, listing, mainPc, market, orders, callers, running, ret>>

\* await self.fetch_initial_prices()
AutoFetch(d, yes_resp, no_resp) ==
    /\ prog = "auto" /\ sessPc = "fetch" /\ running = 0
    /\ d = 0 \/ now < MaxTime
    /\ now' = now + d
    /\ sess' = fetch_initial_prices(sess, yes_resp, no_resp)
    /\ sessPc' = "connect"
    /\ hist' = [hist EXCEPT !.fetched = IF FetchOk(yes_resp, no_resp) THEN "ok" ELSE "failed"]
    /\ UNCHANGED <<inbox, prog, DRY_RUN, listing, mainPc, market, orders, callers, running, ret>>

\* slip: "while True"
LoopGoesOn_Always(s) == TRUE

\* "while not self.order_executed"
LoopGoesOn(s) == ~s.order_executed

\* websockets.connect and the subscribe message, then the first test of
\* "while not self.order_executed"
AutoConnect(ok) ==
    /\ prog = "auto" /\ sessPc = "connect" /\ running = 0
    /\ IF ~ok
       THEN EndSession("FAILED")
       ELSE IF ~LoopGoesOn(sess)
       THEN EndSession("FIRED")
       ELSE sessPc' = "recv" /\ hist' = hist
    /\ UNCHANGED <<inbox, prog, DRY_RUN, now, listing, mainPc, market, sess, orders, callers,
                   running, ret>>

\* The loop body after the receive, with the book s1 and the clock now2:
\* from get_seconds_remaining() to the sleep.  left is the number of
\* messages that still wait in the stream buffer.
AutoAfterRecv(s1, now2, got, left) ==
    LET seconds_remaining == s1.end_time - now2
        s2 == [s1 EXCEPT !.seconds_remaining = seconds_remaining]
        dec == AutoSniper_determine_winning_side(s2)
        qual == IF ~got THEN hist.qualAt
                ELSE IF Qualifies(s2.best_yes_ask) \/ Qualifies(s2.best_no_ask)
                THEN (IF seconds_remaining <= TRIGGER_SECONDS
                      THEN seconds_remaining ELSE TRIGGER_SECONDS + 1)
                ELSE None
    IN  /\ now' = now2
        /\ IF Expired(seconds_remaining)
           THEN /\ sess' = s2 /\ orders' = orders /\ sessPc' = "done"
                /\ hist' = [hist EXCEPT !.outcome = "EXPIRED", !.qualAt = qual]
           ELSE IF ~InTriggerZone(seconds_remaining)
           THEN /\ sess' = s2 /\ orders' = orders /\ sessPc' = "sleep"
                /\ hist' = [hist EXCEPT !.qualAt = qual]
           ELSE IF dec.kind = "raise"
           THEN /\ sess' = s2 /\ orders' = orders /\ sessPc' = "done"
                /\ hist' = [hist EXCEPT !.outcome = "FAILED", !.armed = TRUE,
                                        !.decidedAt = seconds_remaining, !.qualAt = qual,
                                        !.backlog = left]
           ELSE IF dec.kind = "decision"
           THEN /\ \E res \in OrderResults :
                      LET eo == execute_order("auto", DRY_RUN, s2, orders, dec,
                                              seconds_remaining, now2, res)
                      IN  sess' = eo.sess /\ orders' = eo.orders
                /\ sessPc' = "done"
                /\ hist' = [hist EXCEPT !.outcome = "FIRED", !.armed = TRUE,
                                        !.decidedAt = seconds_remaining, !.qualAt = qual,
                                        !.backlog = left]
           ELSE /\ sess' = s2 /\ orders' = orders /\ sessPc' = "sleep"
                /\ hist' = [hist EXCEPT !.armed = TRUE, !.decidedAt = seconds_remaining,
                                        !.qualAt = qual, !.backlog = left]

\* msg = await asyncio.wait_for(ws.recv(), timeout=1.0) with an empty stream
\* buffer: a book message arrives within the second and is returned
AutoRecvMessage(d, data) ==
    /\ prog = "auto" /\ sessPc = "recv" /\ running = 0
    /\ inbox = <<>>
    /\ d = 0 \/ now < MaxTime
    /\ AutoAfterRecv(process_orderbook(sess, data), now + d, TRUE, 0)
    /\ UNCHANGED <<inbox, prog, DRY_RUN, listing, mainPc, market, callers, running, ret>>

\* ... messages wait in the buffer: ws.recv() returns the oldest one, and
\* only that one is processed before the tick
AutoRecvQueued(d) ==
    /\ prog = "auto" /\ sessPc = "recv" /\ running = 0
    /\ inbox # <<>>
    /\ d = 0 \/ now < MaxTime
    /\ inbox' = Tail(inbox)
    /\ AutoAfterRecv(process_orderbook(sess, Head(inbox)), now + d, TRUE, Len(inbox) - 1)
    /\ UNCHANGED <<prog, DRY_RUN, listing, mainPc, market, callers, running, ret>>

\* slip: ws.recv() is awaited without a timeout
RecvTimesOut_Never == FALSE

\* "await asyncio.wait_for(ws.recv(), timeout=1.0)": a silent stream gives
\* the loop its turn after one second
RecvTimesOut == TRUE

\* slip: "except asyncio.TimeoutError: continue", back to the receive
OnRecvTimeout_Continue == "recv"

\* "except asyncio.TimeoutError: pass": the loop body goes on below the try
OnRecvTimeout == "tick"

\* ... the second elapses without a message (asyncio.TimeoutError)
AutoRecvTimeout ==
    /\ prog = "auto" /\ sessPc = "recv" /\ running = 0
    /\ inbox = <<>> /\ RecvTimesOut
    /\ IF OnRecvTimeout = "tick"
       THEN AutoAfterRecv(sess, IF now < MaxTime THEN now + 1 ELSE now, FALSE, 0)
       ELSE /\ now' = (IF now < MaxTime THEN now + 1 ELSE now)
            /\ UNCHANGED <<sess, sessPc, orders, hist>>
    /\ UNCHANGED <<inbox, prog, DRY_RUN, listing, mainPc, market, callers, running, ret>>

\* "for item in data: self.process_orderbook(item)": the items of a list
\* message are applied in order, with no await between them
RECURSIVE ProcessItems(_, _)
ProcessItems(s, items) ==
    IF items = <<>> THEN s
    ELSE ProcessItems(process_orderbook(s, Head(items)), Tail(items))

\* ... the message that arrives is a list of book items
AutoRecvList(d, items) ==
    /\ prog = "auto" /\ sessPc = "recv" /\ running = 0
    /\ inbox = <<>>
    /\ d = 0 \/ now < MaxTime
    /\ AutoAfterRecv(ProcessItems(sess, items), now + d, TRUE, 0)
    /\ UNCHANGED <<inbox, prog, DRY_RUN, listing, mainPc, market, callers, running, ret>>

\* ... the message is a text json.loads rejects: JSONDecodeError is not
\* asyncio.TimeoutError, so it leaves the loop through the outer handler
AutoRecvMalformed(d) ==
    /\ prog = "auto" /\ sessPc = "recv" /\ running = 0
    /\ inbox = <<>>
    /\ d = 0 \/ now < MaxTime
    /\ now' = now + d
    /\ EndFailed("badjson")
    /\ UNCHANGED <<inbox, prog, DRY_RUN, listing, mainPc, market, sess, orders, callers,
                   running, ret>>

\* ... the connection fails: the exception leaves the loop (return False)
AutoRecvError(d) ==
    /\ prog = "auto" /\ sessPc = "recv" /\ running = 0
    /\ d = 0 \/ now < MaxTime
    /\ now' = now + d
    /\ EndFailed("disconnect")
    /\ UNCHANGED <<inbox, prog, DRY_RUN, listing, mainPc, market, sess, orders, callers,
                   running, ret>>

\* await asyncio.sleep(0.1), then the test of "while not self.order_executed"
AutoSleep(d) ==
    /\ prog = "auto" /\ sessPc = "sleep" /\ running = 0
    /\ d = 0 \/ now < MaxTime
    /\ now' = now + d
    /\ IF ~LoopGoesOn(sess)
       THEN EndSession("FIRED")
       ELSE sessPc' = "recv" /\ hist' = hist
    /\ UNCHANGED <<inbox, prog, DRY_RUN, listing, mainPc, market, sess, orders, callers,
                   running, ret>>

\* the stream delivers a book message while the loop is busy or asleep
StreamDeliver(data) ==
    /\ prog = "auto" /\ sessPc \in {"recv", "sleep"} /\ running = 0
    /\ Len(inbox) < MaxInbox
    /\ inbox' = Append(inbox, data)
    /\ UNCHANGED <<prog, DRY_RUN, now, listing, mainPc, market, sess, sessPc, orders,
                   callers, running, ret, hist>>

(***************************************************************************)
(* MarketSniper.run and MarketSniper.monitor_loop                          *)
(***************************************************************************)
\* "if seconds_remaining <= 0" of monitor_loop
MS_Expired(seconds_remaining) == seconds_remaining <= 0

\* slip: the upper end of the trigger window is not tested
MS_InTriggerZone_NoUpper(seconds_remaining) == 0 < seconds_remaining

\* "if 0 < seconds_remaining <= TRIGGER_SECONDS" of monitor_loop
MS_InTriggerZone(seconds_remaining) ==
    0 < seconds_remaining /\ seconds_remaining <= MS_TRIGGER_SECONDS

\* slip: the safety check is missing
MS_SafetyCheck_Missing(best_ask) == TRUE

\* "if best_ask < BUY_PRICE" of monitor_loop
MS_SafetyCheck(best_ask) == best_ask < MS_BUY_PRICE

\* run(): initialize_client (raises without PRIVATE_KEY), parse_end_time and
\* the test "Market has already ended"
SniperRun(ok) ==
    /\ prog = "sniper" /\ mainPc = "run"
    /\ IF ok /\ sess.end_time - now > 0
       THEN /\ sess' = [sess EXCEPT !.client = TRUE]
            /\ mainPc' = "session"
            /\ sessPc' = "connect"
            /\ hist' = [NoHist EXCEPT !.startRemaining = sess.end_time - now]
       ELSE /\ sess' = [sess EXCEPT !.client = ok]
            /\ mainPc' = "exit"
            /\ UNCHANGED <<sessPc, hist>>
    /\ UNCHANGED <<inbox, prog, DRY_RUN, now, listing, market, orders, callers, running, ret>>

\* websockets.connect, subscribe_to_market and create_task(receive_messages)
SniperConnect(ok) ==
    /\ prog = "sniper" /\ sessPc = "connect" /\ running = 0
    /\ IF ok
       THEN /\ sessPc' = "tick" /\ hist' = hist
            /\ sess' = [sess EXCEPT !.receive_task = "running"]
       ELSE EndSession("FAILED") /\ sess' = sess
    /\ UNCHANGED <<inbox, prog, DRY_RUN, now, listing, mainPc, market, orders, callers,
                   running, ret>>

\* One pass of "while not self.order_executed", up to the adaptive sleep.
SniperTick ==
    /\ prog = "sniper" /\ sessPc = "tick" /\ running = 0
    /\ LET seconds_remaining == sess.end_time - now
           s2 == [sess EXCEPT !.seconds_remaining = seconds_remaining]
           winning == MarketSniper_determine_winning_side(s2)
       IN  IF ~LoopGoesOn(sess)
           THEN /\ EndSession("FIRED")
                /\ UNCHANGED <<sess, orders>>
           ELSE IF MS_Expired(seconds_remaining)
           THEN /\ EndSession("EXPIRED")
                /\ sess' = s2
                /\ orders' = orders
           ELSE IF ~MS_InTriggerZone(seconds_remaining)
           THEN /\ sessPc' = "sleep" /\ sess' = s2 /\ orders' = orders /\ hist' = hist
           ELSE IF winning.kind = "decision" /\ MS_SafetyCheck(winning.price)
           THEN /\ sessPc' = "sleep"
                /\ \E res \in OrderResults :
                      LET eo == execute_order("sniper", DRY_RUN, s2, orders, winning,
                                              seconds_remaining, now, res)
                      IN  sess' = eo.sess /\ orders' = eo.orders
                /\ hist' = [hist EXCEPT !.armed = TRUE, !.decidedAt = seconds_remaining]
           ELSE /\ sessPc' = "sleep" /\ sess' = s2 /\ orders' = orders
                /\ hist' = [hist EXCEPT !.armed = TRUE, !.decidedAt = seconds_remaining]
    /\ UNCHANGED <<inbox, prog, DRY_RUN, now, listing, mainPc, market, callers, running, ret>>

\* slip: the coarse and the fine interval are exchanged
AdaptiveSleep_Reversed(seconds_remaining) ==
    IF seconds_remaining > 10 THEN 10
    ELSE IF seconds_remaining > 2 THEN 100
    ELSE 1000

\* "if seconds_remaining > 10: sleep(1.0) elif seconds_remaining > 2:
\* sleep(0.1) else: sleep(0.01)", in milliseconds
AdaptiveSleep(seconds_remaining) ==
    IF seconds_remaining > 10 THEN 1000
    ELSE IF seconds_remaining > 2 THEN 100
    ELSE 10

\* the adaptive sleep: a sleep of a full second moves the clock to the next
\* second, a shorter one may or may not reach it
SniperSleep(d) ==
    /\ prog = "sniper" /\ sessPc = "sleep" /\ running = 0
    /\ IF AdaptiveSleep(sess.seconds_remaining) >= 1000 THEN d = 1 ELSE d \in {0, 1}
    /\ d = 0 \/ now < MaxTime
    /\ now' = now + d
    /\ sessPc' = "tick"
    /\ UNCHANGED <<inbox, prog, DRY_RUN, listing, mainPc, market, sess, orders, callers, running,
                   ret, hist>>

\* receive_messages: the background task handles one "book" message while
\* the tick loop sleeps; an exception of process_orderbook_update is not a
\* JSONDecodeError and ends the task
SniperReceive(data) ==
    /\ prog = "sniper" /\ sessPc = "sleep" /\ running = 0
    /\ sess.receive_task = "running"
    /\ sess' = IF UpdateRaises(data)
               THEN [sess EXCEPT !.receive_task = "failed"]
               ELSE process_orderbook_update(sess, data)
    /\ UNCHANGED <<inbox, prog, DRY_RUN, now, listing, mainPc, market, sessPc, orders, callers,
                   running, ret, hist>>

(***************************************************************************)
(* auto_sniper.main: one pass of "while True" per action                   *)
(***************************************************************************)
ScanDelays == 0..MaxScanDelay

\* slip: the window test is missing
InMonitorWindow_Always(m) == TRUE

\* "if minutes_remaining <= monitor_window"
InMonitorWindow(m) == m.minutes_remaining <= m.monitor_window * 60

\* slip: the two branches are exchanged
WaitSleep_Swapped(m) ==
    LET wait_seconds == m.minutes_remaining - m.monitor_window * 60
    IN  IF wait_seconds <= 120 THEN 60 ELSE wait_seconds

\* the sleep of the waiting branch
WaitSleep(m) ==
    LET wait_seconds == m.minutes_remaining - m.monitor_window * 60
    IN  IF wait_seconds <= 120 THEN wait_seconds ELSE 60

\* the delay of "await asyncio.sleep(60)" after "No upcoming markets found"
NO_MARKET_SLEEP == 60

\* slip: "continue" without the sleep
AfterEmptyScan_NoWait(t) == t

\* the time at which the loop scans again after an empty scan that ended at t
AfterEmptyScan(t) == t + NO_MARKET_SLEEP

\* slip: an exception of the scan leaves "while True"
AfterScanError_Exit == "exit"

\* "except Exception as e: ... await asyncio.sleep(10)": the loop goes on
AfterScanError == "scan"

\* find_next_market returns None: sleep 60 s
MainScanNone(d) ==
    /\ prog = "auto" /\ mainPc = "scan" /\ now <= MaxTime
    /\ find_next_market(listing, now).kind = "none"
    /\ market' = NoMarket
    /\ now' = AfterEmptyScan(now + d)
    /\ UNCHANGED <<inbox, prog, DRY_RUN, listing, mainPc, sess, sessPc, orders, callers, running,
                   ret, hist>>

\* find_next_market raises: "except Exception", sleep 10 s
MainScanError(d) ==
    /\ prog = "auto" /\ mainPc = "scan" /\ now <= MaxTime
    /\ find_next_market(listing, now).kind = "raise"
    /\ now' = now + d + 10
    /\ mainPc' = AfterScanError
    /\ UNCHANGED <<inbox, prog, DRY_RUN, listing, market, sess, sessPc, orders, callers,
                   running, ret, hist>>

\* the candidate is inside its monitoring window: sniper = AutoSniper(market)
MainScanStart(d) ==
    /\ prog = "auto" /\ mainPc = "scan" /\ now <= MaxTime
    /\ LET r == find_next_market(listing, now)
       IN  /\ r.kind = "market" /\ InMonitorWindow(r.market)
           /\ sess.sid < MaxSessions
           /\ market' = r.market
           /\ sess' = NewSniper(r.market, sess.sid + 1)
           /\ hist' = [NoHist EXCEPT !.startRemaining = r.market.end_time - now]
    /\ now' = now + d
    /\ mainPc' = "session"
    /\ sessPc' = "init"
    /\ UNCHANGED <<inbox, prog, DRY_RUN, listing, orders, callers, running, ret>>

\* the candidate is not yet inside its monitoring window: sleep, then rescan
MainScanWait(d) ==
    /\ prog = "auto" /\ mainPc = "scan" /\ now <= MaxTime
    /\ LET r == find_next_market(listing, now)
       IN  /\ r.kind = "market" /\ ~InMonitorWindow(r.market)
           /\ market' = r.market
           /\ now' = now + d + WaitSleep(r.market)
    /\ UNCHANGED <<inbox, prog, DRY_RUN, listing, mainPc, sess, sessPc, orders, callers, running,
                   ret, hist>>

\* monitor_and_snipe returned: leave (RUN_ONCE) or sleep 5 s and rescan
MainAfterSession ==
    /\ prog = "auto" /\ mainPc = "session" /\ sessPc = "done"
    /\ IF RUN_ONCE
       THEN mainPc' = "exit" /\ now' = now
       ELSE mainPc' = "scan" /\ now' = now + 5
    /\ sessPc' = "none"
    /\ UNCHANGED <<inbox, prog, DRY_RUN, listing, market, sess, orders, callers, running, ret, hist>>

(***************************************************************************)
(* Direct callers of execute_order: each is a coroutine of the same event  *)
(* loop; it keeps the loop from one statement to the next unless the       *)
(* statement awaits.                                                       *)
(***************************************************************************)
\* slip: an await between the test of the fired flag and its assignment
Yields_AfterCheck(stmt) == stmt = "check"

\* whether execute_order gives up the event loop after the named statement
\* (it holds no await: create_and_post_order is a plain call)
Yields(stmt) == FALSE

MayRun(i) == running = i \/ running = 0

\* "if self.order_executed: return"
CallCheck(i) ==
    /\ callers[i].pc = "start" /\ running = 0
    /\ IF AlreadyExecuted(sess)
       THEN /\ callers' = [callers EXCEPT ![i].pc = "done"]
            /\ running' = 0
       ELSE /\ callers' = [callers EXCEPT ![i].pc = "set"]
            /\ running' = IF Yields("check") THEN 0 ELSE i
    /\ UNCHANGED <<inbox, prog, DRY_RUN, now, listing, mainPc, market, sess, sessPc, orders, ret, hist>>

\* "self.order_executed = True" and "if DRY_RUN: ... return"
CallSet(i) ==
    /\ callers[i].pc = "set" /\ MayRun(i)
    /\ sess' = SetExecuted(sess)
    /\ IF DRY_RUN
       THEN /\ callers' = [callers EXCEPT ![i].pc = "done"]
            /\ running' = 0
       ELSE /\ callers' = [callers EXCEPT ![i].pc = "submit"]
            /\ running' = IF Yields("set") THEN 0 ELSE i
    /\ UNCHANGED <<inbox, prog, DRY_RUN, now, listing, mainPc, market, sessPc, orders, ret, hist>>

\* the try block with create_and_post_order
CallSubmit(i) ==
    /\ callers[i].pc = "submit" /\ MayRun(i)
    /\ \E res \in OrderResults :
          /\ orders' = Submit(prog, sess, orders, callers[i].dec, None, now, res)
          /\ sess' = AfterSubmit(prog, sess, callers[i].dec, res)
    /\ callers' = [callers EXCEPT ![i].pc = "done"]
    /\ running' = 0
    /\ UNCHANGED <<inbox, prog, DRY_RUN, now, listing, mainPc, market, sessPc, ret, hist>>

(***************************************************************************)
(* Spec: the two scripts as they run                                       *)
(***************************************************************************)
WorldRecord(c, q, kind, e) ==
    [conditionId |-> c, question |-> q, closed |-> FALSE,
     endDate |-> [kind |-> kind, t |-> e], qTime |-> None,
     clobTokenIds |-> TokenIdsOf(c),
     outcomes |-> IF q = "updown" THEN <<"Up", "Down">> ELSE <<"Yes", "No">>,
     arrays |-> "json"]

WorldSearches ==
    {<<>>, <<WorldRecord("c1", "updown", "naive", 7)>>}
    \cup { <<WorldRecord("c1", "updown", "aware", e)>> : e \in {3, 7, 400} }

WorldActives ==
    {<<>>} \cup { <<WorldRecord("c2", "daily", "aware", e)>> : e \in {6, 2000} }

SniperEnds == {0, 3, 12}

SniperConfig(e) ==
    [question |-> "updown", condition_id |-> "c1",
     yes_token_id |-> "c1-yes", no_token_id |-> "c1-no",
     end_time |-> e, minutes_remaining |-> None,
     market_type |-> "15min", monitor_window |-> None]

InitAuto ==
    /\ prog = "auto"
    /\ DRY_RUN \in BOOLEAN
    /\ now = 0
    /\ \E srch \in WorldSearches, act \in WorldActives :
          listing = [responses |-> <<OkResponse(srch)>>, active |-> act, activeOk |-> TRUE]
    /\ mainPc = "scan"
    /\ market = NoMarket
    /\ sess = NoSession
    /\ sessPc = "none"
    /\ orders = <<>>
    /\ callers = <<>>
    /\ running = 0
    /\ ret = Pending
    /\ inbox = <<>>
    /\ hist = NoHist

InitSniper ==
    /\ prog = "sniper"
    /\ DRY_RUN \in BOOLEAN
    /\ now = 0
    /\ listing = EmptyListing
    /\ mainPc = "run"
    /\ market = NoMarket
    /\ \E e \in SniperEnds : sess = NewSniper(SniperConfig(e), 1)
    /\ sessPc = "none"
    /\ orders = <<>>
    /\ callers = <<>>
    /\ running = 0
    /\ ret = Pending
    /\ inbox = <<>>
    /\ hist = NoHist

Init == InitAuto \/ InitSniper

LoopNext ==
    \/ \E d \in {0, 1}, data \in Messages(sess) : AutoRecvMessage(d, data)
    \/ AutoRecvTimeout
    \/ \E d \in {0, 1} : AutoRecvMalformed(d)
    \/ \E d \in {0, 1} : AutoRecvError(d)
    \/ \E d \in {0, 1} : AutoSleep(d)
    \/ SniperTick
    \/ \E d \in {0, 1} : SniperSleep(d)
    \/ \E data \in Messages(sess) : SniperReceive(data)

Next ==
    \/ \E d \in ScanDelays : MainScanNone(d)
    \/ \E d \in ScanDelays : MainScanError(d)
    \/ \E d \in ScanDelays : MainScanStart(d)
    \/ \E d \in ScanDelays : MainScanWait(d)
    \/ MainAfterSession
    \/ \E ok \in BOOLEAN : AutoInitClient(ok)
    \/ \E d \in {0, 1}, yes_resp \in Answers, no_resp \in Answers : AutoFetch(d, yes_resp, no_resp)
    \/ \E ok \in BOOLEAN : AutoConnect(ok)
    \/ \E ok \in BOOLEAN : SniperRun(ok)
    \/ \E ok \in BOOLEAN : SniperConnect(ok)
    \/ LoopNext

Spec == Init /\ [][Next]_vars

(***************************************************************************)
(* SpecAlert: up to MaxScans find_next_market calls in a row, the exchange *)
(* listing and unlisting markets in between; ret is the log of the calls   *)
(***************************************************************************)
MaxScans == 2

AlertListings ==
    { [responses |-> <<OkResponse(srch)>>, active |-> act, activeOk |-> TRUE] :
        srch \in {<<>>, <<WorldRecord("c1", "updown", "aware", 13)>>,
                  <<WorldRecord("c1", "updown", "aware", 20)>>,
                  <<WorldRecord("c3", "other", "aware", 13)>>},
        act \in {<<>>, <<WorldRecord("c2", "daily", "aware", 15)>>} }

InitAlert ==
    /\ prog = "auto"
    /\ DRY_RUN = FALSE
    /\ now = 10
    /\ listing \in AlertListings
    /\ mainPc = "alert"
    /\ market = NoMarket
    /\ sess = NoSession
    /\ sessPc = "none"
    /\ orders = <<>>
    /\ callers = <<>>
    /\ running = 0
    /\ ret = <<>>
    /\ inbox = <<>>
    /\ hist = NoHist

\* one call of find_next_market from main
AlertScan(outcome) ==
    /\ mainPc = "alert" /\ Len(ret) < MaxScans
    /\ ret' = Append(ret, find_next_market_alert(listing, now, outcome))
    /\ market' = ret'[Len(ret')].result.market
    /\ UNCHANGED <<inbox, prog, DRY_RUN, now, listing, mainPc, sess, sessPc, orders,
                   callers, running, hist>>

\* the answers of the exchange change between two calls of
\* find_next_market: between two scans of the log, or while main sleeps in
\* its waiting branch
ListingChanges(lst) ==
    /\ \/ mainPc = "alert" /\ Len(ret) \in 1..(MaxScans - 1)
       \/ mainPc = "scan" /\ market # NoMarket
    /\ lst # listing
    /\ listing' = lst
    /\ UNCHANGED <<inbox, prog, DRY_RUN, now, mainPc, market, sess, sessPc, orders,
                   callers, running, ret, hist>>

AlertNext ==
    \/ \E outcome \in NotifyOutcomes : AlertScan(outcome)
    \/ \E lst \in AlertListings : ListingChanges(lst)

SpecAlert == InitAlert /\ [][AlertNext]_vars

(***************************************************************************)
(* SpecWait: main from its first scan to the start of a session, on        *)
(* markets that are outside their monitoring window at first, the exchange *)
(* listing and unlisting markets while main sleeps                         *)
(***************************************************************************)
WaitListings ==
    { [responses |-> <<OkResponse(srch)>>, active |-> <<>>, activeOk |-> TRUE] :
        srch \in {<<>>}
            \cup { <<WorldRecord("c1", "updown", "aware", e)>> : e \in {400, 410, 421} }
            \cup { <<WorldRecord("c1", "updown", "aware", 421),
                     WorldRecord("c2", "updown", "aware", e)>> : e \in {330, 365, 380} } }

InitWait ==
    /\ InitAuto
    /\ listing \in WaitListings
    /\ Len(listing.responses[1].markets) = 1

WaitNext ==
    \/ \E d \in ScanDelays : MainScanNone(d)
    \/ \E d \in ScanDelays : MainScanStart(d)
    \/ \E d \in ScanDelays : MainScanWait(d)
    \/ \E lst \in WaitListings : ListingChanges(lst)

SpecWait == InitWait /\ [][WaitNext]_vars

(***************************************************************************)
(* SpecTime: the end-time parsers applied to one record that carries a     *)
(* structured end-date, a time in its question text, both or neither       *)
(***************************************************************************)
TimeEnds == {13, 20, 400}

TimeQuestionTimes == {None, 13, 25}

TimeRecords ==
    { [WorldRecord("c1", "updown", k, e) EXCEPT !.qTime = q] :
        k \in {"aware", "naive", "absent", "bad"}, e \in TimeEnds, q \in TimeQuestionTimes }

NoParse == [kind |-> "pending", fn |-> "", value |-> NoDatetime]

InitTime ==
    /\ prog = "auto"
    /\ DRY_RUN = FALSE
    /\ now = 10
    /\ listing = EmptyListing
    /\ mainPc = "parse"
    /\ market \in TimeRecords
    /\ sess = NoSession
    /\ sessPc = "none"
    /\ orders = <<>>
    /\ callers = <<>>
    /\ running = 0
    /\ ret = NoParse
    /\ inbox = <<>>
    /\ hist = NoHist

Parsed(fn, value) ==
    /\ mainPc = "parse" /\ ret.kind = "pending"
    /\ ret' = [kind |-> "time", fn |-> fn, value |-> value]
    /\ UNCHANGED <<inbox, prog, DRY_RUN, now, listing, mainPc, market, sess, sessPc, orders,
                   callers, running, hist>>

ParseApi == Parsed("parse_end_date_from_api", parse_end_date_from_api(market))

ParseFind == Parsed("find_next_market", EndTime15(market))

ParseScanner == Parsed("parse_market_end_time", scanner_parse_market_end_time(market))

TimeNext == ParseApi \/ ParseFind \/ ParseScanner

SpecTime == InitTime /\ [][TimeNext]_vars

(***************************************************************************)
(* SpecText: the question-text parser applied to the groups of a matching  *)
(* text                                                                    *)
(***************************************************************************)
TextWords ==
    { MonthNames[i] : i \in 1..12 } \cup { TitleNames[i] : i \in 1..12 }
        \cup { UpperNames[i] : i \in 1..12 } \cup {"Feb", "Down"}

TextDays == {1, 29, 31, 32}

MaxHour == 13

TextMinutes == {None, 30, 75}

TextAmPm == {"am", "pm", "AM", "PM"}

TextYears == {2026, 2028}

Texts ==
    [month_name : TextWords, day : TextDays, hour : 0..MaxHour, minute : TextMinutes,
     ampm : TextAmPm]

NoTextParse == [kind |-> "pending", fn |-> "", value |-> NoWallClock]

InitText ==
    /\ prog = "auto"
    /\ DRY_RUN = FALSE
    /\ now = 10
    /\ listing = EmptyListing
    /\ mainPc = "parse"
    /\ market \in [text : Texts, year : TextYears]
    /\ sess = NoSession
    /\ sessPc = "none"
    /\ orders = <<>>
    /\ callers = <<>>
    /\ running = 0
    /\ ret = NoTextParse
    /\ inbox = <<>>
    /\ hist = NoHist

\* parse_market_end_time_from_question on the text
ParseQuestion == Parsed("parse_market_end_time_from_question", QuestionTime(market.text, market.year))

\* scanner.parse_market_end_time on a record that has the text and no
\* structured end-date
ParseQuestionScanner == Parsed("parse_market_end_time", QuestionTime(market.text, market.year))

TextNext == ParseQuestion \/ ParseQuestionScanner

SpecText == InitText /\ [][TextNext]_vars

(***************************************************************************)
(* SpecLive: the two programs on markets that expire inside the modelled   *)
(* time, with the scheduling the event loop gives: every session step     *)
(* that is ready is eventually run, a receive that got nothing times out,  *)
(* and the clock advances (a sleep of the loop eventually spans a second   *)
(* boundary).  Nothing is assumed about the arrival of stream messages.    *)
(***************************************************************************)
LiveEnd == 12

LiveRecords(lst) ==
    { lst.responses[1].markets[i] : i \in 1..Len(lst.responses[1].markets) }
        \cup { lst.active[i] : i \in 1..Len(lst.active) }

InitLive ==
    /\ Init
    /\ \A m \in LiveRecords(listing) : m.endDate.t <= LiveEnd

\* what the servers say in these runs: nothing, or one book that qualifies
LiveAnswers == {NoAnswer, [ask |-> 95, bid |-> 94, ok |-> TRUE]}

LiveMessages(s) ==
    { [asset_id |-> a, ask |-> 95, bid |-> 94] : a \in {s.yes_token_id, s.no_token_id} }

\* one pass of main up to the session; every market of these runs is
\* inside its monitoring window from the start (LiveEnd is below both
\* windows), so the waiting branch of main has no step here
ScanStep ==
    \/ \E d \in ScanDelays : MainScanNone(d)
    \/ \E d \in ScanDelays : MainScanError(d)
    \/ \E d \in ScanDelays : MainScanStart(d)

\* a step of a session that needs nothing from the stream, and the return
\* of monitor_and_snipe to main
SessionStep ==
    \/ MainAfterSession
    \/ \E ok \in BOOLEAN : AutoInitClient(ok)
    \/ \E d \in {0, 1}, yes_resp \in LiveAnswers, no_resp \in LiveAnswers :
          AutoFetch(d, yes_resp, no_resp)
    \/ \E ok \in BOOLEAN : AutoConnect(ok)
    \/ \E ok \in BOOLEAN : SniperRun(ok)
    \/ \E ok \in BOOLEAN : SniperConnect(ok)
    \/ AutoRecvTimeout
    \/ \E d \in {0, 1} : AutoSleep(d)
    \/ SniperTick
    \/ \E d \in {0, 1} : SniperSleep(d)

\* a sleep of the monitor loop during which the clock reaches the next second
ClockStep == AutoSleep(1) \/ SniperSleep(1)

LiveFairness ==
    /\ WF_vars(SessionStep)
    /\ SF_vars(ClockStep)

\* what the stream does to the loop: a message, a text that is no JSON, a
\* closed connection
StreamStep ==
    \/ \E d \in {0, 1}, data \in LiveMessages(sess) : AutoRecvMessage(d, data)
    \/ \E d \in {0, 1} : AutoRecvMalformed(d)
    \/ \E d \in {0, 1} : AutoRecvError(d)
    \/ \E data \in LiveMessages(sess) : SniperReceive(data)

LiveNext == ScanStep \/ SessionStep \/ StreamStep

SpecLive == InitLive /\ [][LiveNext]_vars /\ LiveFairness

(***************************************************************************)
(* SpecGate: a session inside its monitoring loop, with NumCallers         *)
(* coroutines that call execute_order on it                                *)
(***************************************************************************)
GateEnds == {2, 6}

GateDecisions ==
    {Decision("YES", "c1-yes", 95), Decision("NO", "c1-no", 96)}

InitGate ==
    /\ prog \in {"auto", "sniper"}
    /\ DRY_RUN \in BOOLEAN
    /\ now = 0
    /\ listing = EmptyListing
    /\ mainPc = "gate"
    /\ market = NoMarket
    /\ \E e \in GateEnds :
          sess = [NewSniper(SniperConfig(e), 1) EXCEPT
                     !.client = TRUE,
                     !.receive_task = IF prog = "sniper" THEN "running" ELSE "none"]
    /\ sessPc = IF prog = "auto" THEN "recv" ELSE "tick"
    /\ orders = <<>>
    /\ callers \in [1..NumCallers -> {[pc |-> "start", dec |-> dec] : dec \in GateDecisions}]
    /\ running = 0
    /\ ret = Pending
    /\ inbox = <<>>
    /\ hist = NoHist

GateNext ==
    \/ LoopNext
    \/ \E i \in 1..NumCallers : CallCheck(i)
    \/ \E i \in 1..NumCallers : CallSet(i)
    \/ \E i \in 1..NumCallers : CallSubmit(i)

SpecGate == InitGate /\ [][GateNext]_vars

(***************************************************************************)
(* SpecStream: an AutoSniper session inside its loop while the stream      *)
(* delivers faster than the loop receives                                  *)
(***************************************************************************)
\* the expiries of these sessions: GateEnds, and one a second away, which
\* a single receive can reach
StreamEnds == GateEnds \cup {1}

InitStream ==
    /\ prog = "auto"
    /\ DRY_RUN = FALSE
    /\ now = 0
    /\ listing = EmptyListing
    /\ mainPc = "stream"
    /\ market = NoMarket
    /\ \E e \in StreamEnds : sess = [NewSniper(SniperConfig(e), 1) EXCEPT !.client = TRUE]
    /\ sessPc = "recv"
    /\ orders = <<>>
    /\ callers = <<>>
    /\ running = 0
    /\ ret = Pending
    /\ inbox = <<>>
    /\ hist = NoHist

MaxItems == 3       \* items in one list message

\* the list messages of these runs: two to MaxItems items
ItemLists(s) ==
    LET items == { [asset_id |-> s.yes_token_id, ask |-> 95, bid |-> 94],
                   [asset_id |-> s.no_token_id, ask |-> 5, bid |-> 4],
                   [asset_id |-> "other", ask |-> Unreadable, bid |-> Unreadable] }
    IN  UNION { [1..n -> items] : n \in 2..MaxItems }

StreamNext ==
    \/ \E data \in Messages(sess) : StreamDeliver(data)
    \/ \E d \in {0, 1}, items \in ItemLists(sess) : AutoRecvList(d, items)
    \/ \E d \in {0, 1} : AutoRecvQueued(d)
    \/ \E d \in {0, 1}, data \in Messages(sess) : AutoRecvMessage(d, data)
    \/ AutoRecvTimeout
    \/ \E d \in {0, 1} : AutoRecvMalformed(d)
    \/ \E d \in {0, 1} : AutoRecvError(d)
    \/ \E d \in {0, 1} : AutoSleep(d)

SpecStream == InitStream /\ [][StreamNext]_vars

(***************************************************************************)
(* SpecBook: the order-book state under any sequence of REST answers and   *)
(* book messages                                                           *)
(***************************************************************************)
BookLevels == { [ask |-> None, bid |-> None], [ask |-> 5, bid |-> 4],
                [ask |-> 95, bid |-> 94], [ask |-> MissingPrice, bid |-> 4],
                [ask |-> 95, bid |-> Unreadable], [ask |-> Unreadable, bid |-> 94] }

BookMessages(s) ==
    { [asset_id |-> a, ask |-> l.ask, bid |-> l.bid] :
        a \in {s.yes_token_id, s.no_token_id, "other"}, l \in BookLevels }

BookAnswers == {NoAnswer} \cup { [ask |-> l.ask, bid |-> l.bid, ok |-> TRUE] : l \in BookLevels }

\* the message handed to the last call of process_orderbook(_update)
LastMessage(data) == [kind |-> "message", data |-> data]

InitBook ==
    /\ prog \in {"auto", "sniper"}
    /\ DRY_RUN = FALSE
    /\ now = 0
    /\ listing = EmptyListing
    /\ mainPc = "book"
    /\ market = NoMarket
    /\ sess = NewSniper(TestMarket, 1)
    /\ sessPc = "none"
    /\ orders = <<>>
    /\ callers = <<>>
    /\ running = 0
    /\ ret = Pending
    /\ inbox = <<>>
    /\ hist = NoHist

BookFetch(yes_resp, no_resp) ==
    /\ mainPc = "book" /\ prog = "auto"
    /\ sess' = fetch_initial_prices(sess, yes_resp, no_resp)
    /\ ret' = Pending
    /\ UNCHANGED <<inbox, prog, DRY_RUN, now, listing, mainPc, market, sessPc, orders,
                   callers, running, hist>>

BookMessage(data) ==
    /\ mainPc = "book" /\ prog = "auto"
    /\ sess' = process_orderbook(sess, data)
    /\ ret' = LastMessage(data)
    /\ UNCHANGED <<inbox, prog, DRY_RUN, now, listing, mainPc, market, sessPc, orders,
                   callers, running, hist>>

BookUpdate(data) ==
    /\ mainPc = "book" /\ prog = "sniper"
    /\ sess' = process_orderbook_update(sess, data)
    /\ ret' = LastMessage(data)
    /\ UNCHANGED <<inbox, prog, DRY_RUN, now, listing, mainPc, market, sessPc, orders,
                   callers, running, hist>>

BookNext ==
    \/ \E yes_resp \in BookAnswers, no_resp \in BookAnswers : BookFetch(yes_resp, no_resp)
    \/ \E data \in BookMessages(sess) : BookMessage(data)
    \/ \E data \in BookMessages(sess) : BookUpdate(data)

SpecBook == InitBook /\ [][BookNext]_vars

(***************************************************************************)
(* C1: in one session the external call create_and_post_order is made at   *)
(* most once, whatever messages, ticks and execute_order calls occur: only *)
(* the call that found order_executed false and set it may submit.         *)
(***************************************************************************)
C1_AtMostOneOrderPerSession ==
    /\ \A i, j \in 1..Len(orders) : orders[i].sid = orders[j].sid => i = j
    /\ orders # <<>> => sess.order_executed
    /\ Len(orders) + Cardinality({i \in DOMAIN callers : callers[i].pc = "submit"}) <= 1

\* every direct call has returned, one of them placed the order, and the
\* session has received a book and let time pass meanwhile
C1_Witness ==
    /\ mainPc = "gate"
    /\ \A i \in DOMAIN callers : callers[i].pc = "done"
    /\ Len(orders) = 1 /\ orders[1].at = None
    /\ sess.best_yes_ask # None
    /\ now > 0

(***************************************************************************)
(* C2: with DRY_RUN false, execute_order invocations started together on   *)
(* one session with the same decision make exactly one                     *)
(* create_and_post_order call, however the event loop schedules them.      *)
(***************************************************************************)
C2_ExactlyOneCall ==
    (/\ mainPc = "gate" /\ ~DRY_RUN
     /\ \A i \in DOMAIN callers : callers[i].pc = "done"
     /\ \A i, j \in DOMAIN callers : callers[i].dec = callers[j].dec)
    => Len(orders) = 1

\* both invocations have returned and the one order is theirs
C2_Witness ==
    /\ mainPc = "gate" /\ ~DRY_RUN
    /\ \A i \in DOMAIN callers : callers[i].pc = "done"
    /\ \A i, j \in DOMAIN callers : callers[i].dec = callers[j].dec
    /\ Len(orders) = 1 /\ orders[1].at = None
    /\ orders[1].token_id = callers[1].dec.token_id

(***************************************************************************)
(* C3: over the whole main loop of auto_sniper at most one order-placement *)
(* call is made per condition_id.                                          *)
(***************************************************************************)
C3_AtMostOneOrderPerMarket ==
    \A i, j \in 1..Len(orders) :
        orders[i].condition_id = orders[j].condition_id => i = j

\* a market selected again by a later scan after its first session failed
C3_Reselected ==
    /\ prog = "auto" /\ sess.sid = 2 /\ sessPc = "recv"
    /\ sess.condition_id = "c1" /\ listing.active = <<>>

(***************************************************************************)
(* C4: execute_order is called, and an order submitted, only by a tick     *)
(* whose measured seconds_remaining is in (0, TRIGGER_SECONDS], in         *)
(* AutoSniper.monitor_and_snipe and in MarketSniper.monitor_loop.          *)
(***************************************************************************)
TriggerOf(p) == IF p = "auto" THEN TRIGGER_SECONDS ELSE MS_TRIGGER_SECONDS

C4_OnlyInTriggerWindow ==
    mainPc \in {"scan", "session", "run", "exit"} =>
        /\ \A i \in 1..Len(orders) :
              /\ orders[i].at # None
              /\ 0 < orders[i].at /\ orders[i].at <= TriggerOf(prog)
        /\ sess.order_executed =>
              /\ sess.seconds_remaining # None
              /\ 0 < sess.seconds_remaining /\ sess.seconds_remaining <= TriggerOf(prog)
        /\ hist.decidedAt # None =>
              0 < hist.decidedAt /\ hist.decidedAt <= TriggerOf(prog)

\* MarketSniper has submitted its order at the tick that measured 1 s
C4_Witness ==
    /\ prog = "sniper" /\ ~DRY_RUN
    /\ Len(orders) = 1 /\ orders[1].at = 1
    /\ sess.order_executed

C6_EndToEndFires ==
    (/\ prog = "auto" /\ ~DRY_RUN /\ sessPc = "done"
     /\ hist.startRemaining = 3 /\ hist.qualAt = 2)
    => /\ hist.outcome = "FIRED"
       /\ Len(orders) = 1
       /\ \/ /\ Qualifies(sess.best_yes_ask)
             /\ orders[1].token_id = sess.yes_token_id
             /\ orders[1].price = sess.best_yes_ask
          \/ /\ Qualifies(sess.best_no_ask)
             /\ orders[1].token_id = sess.no_token_id
             /\ orders[1].price = sess.best_no_ask

(***************************************************************************)
(* C7 (as claimed): whenever the YES ask is present with                   *)
(* MIN_WIN_PROBABILITY < ask <= BUY_PRICE, AutoSniper.determine_winning_side*)
(* returns (YES, yes_token_id, yes_ask); when only the NO ask is in that   *)
(* range it returns (NO, no_token_id, no_ask).                             *)
(***************************************************************************)
LiquidityAbsent(s) ==
    \/ s.best_yes_ask = None /\ s.best_no_ask # None /\ s.best_no_ask < LOW_ASK
    \/ s.best_no_ask = None /\ s.best_yes_ask # None /\ s.best_yes_ask < LOW_ASK

C7_QualifyingSideReturned ==
    (mainPc = "decide" /\ prog = "auto" /\ ret # Pending /\ ~LiquidityAbsent(sess)) =>
        /\ Qualifies(sess.best_yes_ask) =>
              ret = Decision("YES", sess.yes_token_id, sess.best_yes_ask)
        /\ (Qualifies(sess.best_no_ask) /\ ~Qualifies(sess.best_yes_ask)) =>
              ret = Decision("NO", sess.no_token_id, sess.best_no_ask)

(***************************************************************************)
(* C8 (as claimed): AutoSniper.determine_winning_side returns              *)
(* (None, None, None) whenever one ask is absent and the other is below    *)
(* 0.10, and whenever no side qualifies.                                   *)
(***************************************************************************)
C8_NoDecisionReturned ==
    (mainPc = "decide" /\ prog = "auto" /\ ret # Pending) =>
        ((LiquidityAbsent(sess)
          \/ (~Qualifies(sess.best_yes_ask) /\ ~Qualifies(sess.best_no_ask)))
         => ret = NoDecision)

(***************************************************************************)
(* C9: the candidate list of one find_next_market call holds at most one   *)
(* candidate per conditionId.                                              *)
(***************************************************************************)
C9_OneCandidatePerCid ==
    (mainPc = "scantest" /\ ret # Pending) =>
        \A i, j \in 1..Len(ret.candidates) :
            ret.candidates[i].condition_id = ret.candidates[j].condition_id => i = j

\* a listing with the same conditionId twice among the search results and once
\* more among the active markets, next to a second market: two candidates
C9_Witness ==
    /\ mainPc = "scantest" /\ ret # Pending
    /\ Len(ret.candidates) = 2
    /\ Len(AllMarkets(listing)) = 2 /\ Len(listing.active) = 2
    /\ AllMarkets(listing)[1].conditionId = AllMarkets(listing)[2].conditionId
    /\ listing.active[1].conditionId = AllMarkets(listing)[1].conditionId
    /\ listing.active[2].conditionId # AllMarkets(listing)[1].conditionId
    /\ \A i \in 1..2 : /\ AllMarkets(listing)[i].question = "both"
                       /\ listing.active[i].question = "both"
                       /\ AllMarkets(listing)[i].endDate.t > now
                       /\ listing.active[i].endDate.t > now

(***************************************************************************)
(* C10: find_next_market never returns a candidate whose time-to-expiry at *)
(* scan time is <= 0, and the candidate it returns has the least           *)
(* time-to-expiry of all candidates of both shapes.                        *)
(***************************************************************************)
C10_SoonestPositive ==
    (mainPc = "scantest" /\ ret # Pending /\ ret.kind = "market") =>
        /\ ret.market.end_time - now > 0
        /\ \A i \in 1..Len(ret.candidates) :
              /\ ret.market.end_time <= ret.candidates[i].end_time
              /\ ret.candidates[i].end_time - now > 0
        /\ \E i \in 1..Len(ret.candidates) : ret.market = ret.candidates[i]

\* a listing with expired, just-expiring and live records, whose soonest
\* candidate is a daily one listed after a later 15-minute one
C10_Witness ==
    /\ mainPc = "scantest" /\ ret # Pending /\ ret.kind = "market"
    /\ \E i \in 1..Len(AllMarkets(listing)) : AllMarkets(listing)[i].endDate.t < now
    /\ \E i \in 1..Len(listing.active) : listing.active[i].endDate.t = now
    /\ Len(ret.candidates) = 2
    /\ ret.candidates[1].market_type = "15min"
    /\ ret.candidates[2].market_type = "daily"
    /\ ret.market = ret.candidates[2]
    /\ ret.candidates[2].minutes_remaining < ret.candidates[1].minutes_remaining

(***************************************************************************)
(* C11: find_next_market never returns a candidate whose listing record is *)
(* marked closed, in the 15-minute pass and in the daily pass alike: the   *)
(* returned candidate comes from a record of its pass that is not closed.  *)
(***************************************************************************)
PassRecords(mk) ==
    IF mk.market_type = "15min" THEN AllMarkets(listing) ELSE listing.active

C11_NeverClosed ==
    ret.kind = "market" =>
        \E i \in 1..Len(PassRecords(ret.market)) :
            LET m == PassRecords(ret.market)[i]
            IN  /\ m.conditionId = ret.market.condition_id
                /\ m.endDate.t = ret.market.end_time
                /\ ~m.closed

(***************************************************************************)
(* C12: every candidate find_next_market returns has both token ids        *)
(* non-empty and different from each other, whatever the token-id and      *)
(* outcome-label arrays of the record hold.                                *)
(***************************************************************************)
C12_TokensDistinct ==
    ret.kind = "market" =>
        /\ TokenTruthy(ret.market.yes_token_id)
        /\ TokenTruthy(ret.market.no_token_id)
        /\ ret.market.yes_token_id # ret.market.no_token_id

(***************************************************************************)
(* C13: one malformed record (unparseable or offset-less end date, null    *)
(* question, malformed arrays, non-string label) never aborts the scan:    *)
(* with valid records beside it find_next_market returns the soonest valid *)
(* candidate.                                                              *)
(***************************************************************************)
Malformed(m) ==
    \/ m.endDate.kind \in {"bad", "naive"}
    \/ m.question = "null"
    \/ m.arrays = "badjson"
    \/ \E i \in 1..Len(m.outcomes) : m.outcomes[i] = NonStrLabel

WellFormed(m) ==
    /\ ~Malformed(m) /\ ~m.closed
    /\ m.question = "both" /\ m.endDate.t > now
    /\ m.clobTokenIds = TokenIdsOf(m.conditionId) /\ m.outcomes = <<"Up", "Down">>

C13_BadRecordIsolated ==
    LET all == AllMarkets(listing) \o listing.active
        bad == { i \in 1..Len(all) : Malformed(all[i]) }
        good == { i \in 1..Len(all) : WellFormed(all[i]) }
    IN  (/\ ret.kind # "pending"
         /\ Cardinality(bad) = 1 /\ good # {}
         /\ bad \cup good = 1..Len(all)
         /\ \A i \in bad, j \in good : all[i].conditionId # all[j].conditionId)
        => /\ ret.kind = "market"
           /\ \E i \in good : /\ all[i].conditionId = ret.market.condition_id
                               /\ all[i].endDate.t = ret.market.end_time
                               /\ \A j \in good : all[i].endDate.t <= all[j].endDate.t

(***************************************************************************)
(* C14: the failure of one search query (an exception or a status other    *)
(* than 200) is isolated: every search term is still dispatched and the    *)
(* markets of the queries that answered all reach the candidate list.      *)
(***************************************************************************)
C14_QueryFailureIsolated ==
    ret.kind # "pending" =>
        /\ ret.dispatched = Len(listing.responses)
        /\ \A i \in 1..Len(listing.responses) :
              listing.responses[i].kind = "ok" =>
                \A j \in 1..Len(listing.responses[i].markets) :
                    \E k \in 1..Len(ret.candidates) :
                        ret.candidates[k].condition_id =
                            listing.responses[i].markets[j].conditionId

\* the first query raises, the second answers 503, the third answers with a
\* market, and that market is returned
C14_Witness ==
    /\ Len(listing.responses) = 3
    /\ listing.responses[1].kind = "raise"
    /\ listing.responses[2].kind = "status"
    /\ listing.responses[3].kind = "ok" /\ listing.responses[3].markets # <<>>
    /\ ret.kind = "market"
    /\ ret.market.condition_id = listing.responses[3].markets[1].conditionId
    /\ ret.dispatched = 3

(***************************************************************************)
(* C15: a stream message that is not valid JSON (or whose prices cannot be *)
(* read) is dropped and the stream keeps being consumed: no AutoSniper     *)
(* session ends because of such a message.                                 *)
(***************************************************************************)
C15_MalformedDropped == ~(sessPc = "done" /\ hist.cause = "badjson")

(***************************************************************************)
(* C16: every best ask and best bid of the AutoSniper order-book state is  *)
(* absent (None) or a price in (0, 1]; a level without a price is never    *)
(* stored as 0.                                                            *)
(***************************************************************************)
InOpenUnit(p) == p = None \/ (0 < p /\ p <= 100)

C16_PricesInRange ==
    prog = "auto" =>
        /\ InOpenUnit(sess.best_yes_ask) /\ InOpenUnit(sess.best_yes_bid)
        /\ InOpenUnit(sess.best_no_ask) /\ InOpenUnit(sess.best_no_bid)

(***************************************************************************)
(* C17: after a book message the best ask and best bid stored for the      *)
(* token it names are the values of that message (a message that cannot be *)
(* read leaves them as they were), and the prices stored for the other     *)
(* token, or for both when the message names neither, do not change.       *)
(***************************************************************************)
StoredFor(s, side) ==
    IF side = "YES" THEN <<s.best_yes_ask, s.best_yes_bid>>
                    ELSE <<s.best_no_ask, s.best_no_bid>>

MessageSets(data, side) ==
    LET named == data.asset_id = (IF side = "YES" THEN sess.yes_token_id ELSE sess.no_token_id)
        unread == data.ask = Unreadable \/ (prog = "auto" /\ data.bid = Unreadable)
    IN  IF ~named \/ unread
        THEN StoredFor(sess', side) = StoredFor(sess, side)
        ELSE StoredFor(sess', side) =
                <<BestPrice(data.ask), IF prog = "auto" THEN BestPrice(data.bid) ELSE None>>

C17_LastMessageWins ==
    [][ret'.kind = "message" =>
          MessageSets(ret'.data, "YES") /\ MessageSets(ret'.data, "NO")]_vars

(***************************************************************************)
(* C18: once the session is armed, every tick decides on the latest book:  *)
(* at each decision the stored asks reflect every message the stream has   *)
(* delivered so far, so no delivered message is still waiting.             *)
(***************************************************************************)
C18_DecisionOnLatest == hist.armed => hist.backlog = 0

(***************************************************************************)
(* C19: a stream disconnect inside an AutoSniper session is followed by a  *)
(* reconnect with resubscription; the session becomes FAILED only after    *)
(* reconnecting failed, never directly from its receive loop.              *)
(***************************************************************************)
C19_ReconnectBeforeFailed ==
    [][(sessPc = "recv" /\ hist'.cause = "disconnect") => sessPc' = "connect"]_vars

(***************************************************************************)
(* C20: when create_and_post_order raises, the session makes no further    *)
(* call: the fired flag stays true and no other call of the session is in  *)
(* the call log, whoever calls execute_order afterwards.                   *)
(***************************************************************************)
C20_NoRetryAfterError ==
    \A i \in 1..Len(orders) :
        orders[i].result = "raised" =>
            /\ sess.order_executed
            /\ \A j \in 1..Len(orders) : j # i => orders[j].sid # orders[i].sid

\* the first caller's order was rejected, the second caller ran afterwards
\* and the loop left through "while not self.order_executed"
C20_Witness ==
    /\ prog = "auto" /\ ~DRY_RUN
    /\ Len(orders) = 1 /\ orders[1].result = "raised"
    /\ \A i \in 1..NumCallers : callers[i].pc = "done"
    /\ sessPc = "done" /\ hist.outcome = "FIRED"
    /\ sess.order_executed


(***************************************************************************)
(* C23: the main loop starts a session for a candidate only when its       *)
(* time-to-expiry is at most the monitoring window of its shape (5 minutes *)
(* for the timed-window shape, 30 minutes for the daily shape); while the  *)
(* selected candidate is further away the loop waits and no session runs.  *)
(***************************************************************************)
C23_SessionOnlyInWindow ==
    LET window == IF market.market_type = "15min" THEN 5 * 60 ELSE 30 * 60
    IN  prog = "auto" /\ market # NoMarket =>
            /\ mainPc = "session" =>
                  /\ sess.condition_id = market.condition_id
                  /\ hist.startRemaining <= window
                  /\ sess.end_time - now <= window
            /\ market.minutes_remaining > window =>
                  mainPc = "scan" /\ sessPc = "none"

\* the candidate was 400 s away, the loop waited, and the session started
\* when exactly the five minutes were left
C23_Witness ==
    /\ prog = "auto" /\ mainPc = "session" /\ sessPc = "init"
    /\ market.market_type = "15min" /\ market.end_time = 400
    /\ hist.startRemaining = 5 * 60

(***************************************************************************)
(* C24: a scan that finds no candidate is followed by the 60 second delay  *)
(* before the next scan can be issued: the step of an empty scan advances  *)
(* the clock by at least 60 seconds and stays in the main loop.            *)
(***************************************************************************)
C24_EmptyScanWaits ==
    [][(prog = "auto" /\ mainPc = "scan" /\ find_next_market(listing, now).kind = "none")
          => (now' >= now + 60 /\ mainPc' = "scan" /\ sessPc' = "none")]_vars

\* two empty scans in a row have happened
C24_Witness ==
    /\ prog = "auto" /\ mainPc = "scan" /\ sess = NoSession /\ market = NoMarket
    /\ find_next_market(listing, 0).kind = "none"
    /\ now >= 2 * 60

(***************************************************************************)
(* C25: in an AutoSniper session the REST fetch of both books has ended    *)
(* (with or without prices) before the stream connection is opened, and    *)
(* the step that ends the fetch always goes on to the connection: a failed *)
(* fetch never ends the session.                                           *)
(***************************************************************************)
C25_FetchBeforeConnect ==
    [][(prog = "auto" /\ mainPc = "session") =>
          /\ sessPc = "fetch" => sessPc' \in {"fetch", "connect"}
          /\ (sessPc' = "connect" /\ sessPc \in {"init", "fetch"}) =>
                  (sessPc = "fetch" /\ hist'.fetched # "")
          /\ sessPc' \in {"connect", "recv", "sleep"} => hist'.fetched # ""]_vars

\* the fetch failed and the session is subscribed and receiving
C25_Witness ==
    /\ prog = "auto" /\ mainPc = "session" /\ sessPc = "recv"
    /\ hist.fetched = "failed"
    /\ sess.best_yes_ask = None /\ sess.best_no_ask = None


(***************************************************************************)
(* C21: in continuous mode no error ends auto_sniper.main: the loop never  *)
(* leaves "while True" (a scan that raises goes back to scanning), and     *)
(* whenever a session runs, however it ends, the loop eventually stands    *)
(* at find_next_market again.                                              *)
(***************************************************************************)
C21_MainLoopGoesOn ==
    /\ [](prog = "auto" => mainPc \in {"scan", "session"})
    /\ [](prog = "auto" /\ mainPc = "session" => <>(mainPc = "scan"))

\* a session ended by an error and the loop is scanning again
C21_Witness ==
    /\ prog = "auto" /\ mainPc = "scan" /\ sessPc = "none"
    /\ sess.sid >= 1 /\ hist.outcome = "FAILED"

(***************************************************************************)
(* C22: every session eventually terminates when the clock advances,       *)
(* whether or not a stream message ever arrives: from every state of a     *)
(* session that has started, its monitor loop eventually ends.             *)
(***************************************************************************)
C22_SessionTerminates ==
    [](mainPc = "session" /\ sessPc # "done" => <>(sessPc = "done"))

\* a session ended by expiry without ever having seen a price
C22_Witness ==
    /\ sessPc = "done" /\ hist.outcome = "EXPIRED"
    /\ sess.best_yes_ask = None /\ sess.best_no_ask = None
    /\ sess.best_yes_bid = None /\ sess.best_no_bid = None
    /\ hist.startRemaining > 0


(***************************************************************************)
(* C26: for a record with a parseable structured end-date the expiry used  *)
(* by find_next_market and by scanner.parse_market_end_time is that        *)
(* end-date, whatever the question text says; the time of the question     *)
(* text is the result only when the structured field is absent or          *)
(* unparseable.                                                            *)
(***************************************************************************)
C26_StructuredPreferred ==
    (ret.kind = "time" /\ ret.fn \in {"find_next_market", "parse_market_end_time"}) =>
        IF market.endDate.kind \in {"aware", "naive"}
        THEN ret.value.valid /\ ret.value.t = market.endDate.t
        ELSE ret.value.t = market.qTime

(***************************************************************************)
(* C27: for every valid structured end-date, with "Z", with an offset or   *)
(* without one, parse_end_date_from_api returns exactly that instant as a  *)
(* timezone-aware value (no offset meaning UTC), so that it can be         *)
(* subtracted from the aware current time.                                 *)
(***************************************************************************)
C27_AwareInstant ==
    (ret.kind = "time" /\ ret.fn = "parse_end_date_from_api"
        /\ market.endDate.kind \in {"aware", "naive"}) =>
            /\ ret.value.valid
            /\ ret.value.t = market.endDate.t
            /\ ret.value.aware

(***************************************************************************)
(* C28: for every hour 1..12 with am or pm the parsed hour is the standard *)
(* 24-hour value (12am is 0, 12pm is 12, other pm hours plus 12, other am  *)
(* hours unchanged), and each of the twelve month names, in lower, upper   *)
(* or title case, gives its month number 1..12.                            *)
(***************************************************************************)
C28_TwelveHourAndMonths ==
    LET text == market.text
        pm == text.ampm \in {"pm", "PM"}
        expected == IF pm THEN (text.hour % 12) + 12 ELSE text.hour % 12
    IN  (ret.kind = "time" /\ ret.value.valid) =>
            /\ text.hour \in 1..12 => ret.value.hour = expected
            /\ \A i \in 1..12 :
                  text.month_name \in {MonthNames[i], TitleNames[i], UpperNames[i]}
                      => ret.value.month = i

\* "DECEMBER 31, 12:30AM ET" was parsed to month 12, 00:30
C28_Witness ==
    /\ ret.kind = "time" /\ ret.value.valid
    /\ market.text.month_name = "DECEMBER" /\ market.text.hour = 12
    /\ market.text.ampm = "AM" /\ market.text.minute = 30
    /\ ret.value.month = 12 /\ ret.value.hour = 0 /\ ret.value.minute = 30

(***************************************************************************)
(* C29: the question-text parser gives a time only for a genuine month,    *)
(* day and hour: a word in the month position that is none of the twelve   *)
(* month names, a day outside 1..31, or an hour above 12, gives failure,   *)
(* never a time in some default month.                                     *)
(***************************************************************************)
C29_NoDefaultMonth ==
    LET text == market.text
        genuine == \E i \in 1..12 :
                      text.month_name \in {MonthNames[i], TitleNames[i], UpperNames[i]}
    IN  (ret.kind = "time"
            /\ (~genuine \/ text.day \notin 1..31 \/ text.hour > 12))
          => ~ret.value.valid


C31_YesOnTies ==
    (mainPc = "decide" /\ prog = "auto" /\ ret # Pending
        /\ Qualifies(sess.best_yes_ask) /\ Qualifies(sess.best_no_ask)) =>
            ret = Decision("YES", sess.yes_token_id, sess.best_yes_ask)


(***************************************************************************)
(* C32 (as claimed): every order AutoSniper.execute_order submits carries  *)
(* the token of the decision it was called with, side BUY, the decision's  *)
(* price as limit price, the size BUY_AMOUNT / price, and is marked        *)
(* fill-or-kill.                                                           *)
(***************************************************************************)
C32_OrderAsDecided ==
    prog = "auto" =>
        \A i \in 1..Len(orders) :
            /\ \E j \in 1..Len(callers) :
                  /\ callers[j].pc = "done"
                  /\ orders[i].token_id = callers[j].dec.token_id
                  /\ orders[i].price = callers[j].dec.price
                  /\ orders[i].size = (10 * 10000) \div callers[j].dec.price
            /\ orders[i].side = "BUY"
            /\ orders[i].order_type = "FOK"


(***************************************************************************)
(* C33 (as claimed): with DRY_RUN true no run ever calls                   *)
(* create_and_post_order, and a session whose tick in the trigger window   *)
(* sees a qualifying ask still sets order_executed and ends as FIRED.      *)
(***************************************************************************)
C33_DryRunFiresWithoutCall ==
    DRY_RUN =>
        /\ orders = <<>>
        /\ (prog = "auto" /\ sessPc = "done"
              /\ hist.qualAt # None /\ hist.qualAt \in 1..TRIGGER_SECONDS)
           => (sess.order_executed /\ hist.outcome = "FIRED")


(***************************************************************************)
(* C34: whatever the notifier command does (it shows the alert, exits with *)
(* an error, or cannot be started), a find_next_market call gives what it  *)
(* gives without the alert.                                                *)
(***************************************************************************)
C34_AlertNeverFailsScan ==
    [][Len(ret') > Len(ret) =>
          ret'[Len(ret')].result = find_next_market(listing, now)]_vars

\* the notifier could not be started and the call still returned a market
C34_Witness ==
    /\ mainPc = "alert"
    /\ \E i \in 1..Len(ret) :
          /\ ret[i].alerted /\ ret[i].outcome = "missing"
          /\ ret[i].result.kind = "market"
          /\ ret[i].result.market.market_type = "15min"

(***************************************************************************)
(* C35 (as claimed): the alert is emitted only by a scan in which          *)
(* timed-window candidates are found after a scan that found none (or by   *)
(* the first scan): of two consecutive scans that both find timed-window   *)
(* candidates the second emits no alert.                                   *)
(***************************************************************************)
C35_AlertOnlyOnTransition ==
    mainPc = "alert" =>
        \A i \in 2..Len(ret) : ret[i].alerted => ~ret[i - 1].found


C37_DeadlineNeverStarved ==
    [][(/\ prog = "auto" /\ sessPc = "recv"
        /\ Len(inbox') <= Len(inbox)
        /\ <<now, sess, sessPc, inbox, hist>>' # <<now, sess, sessPc, inbox, hist>>)
       => /\ sessPc' \in {"sleep", "done"}
          /\ \/ hist'.outcome = "FAILED" /\ hist'.cause \in {"badjson", "disconnect"}
             \/ /\ now' - now <= 1
                /\ sess'.seconds_remaining = sess.end_time - now'
                /\ sess'.seconds_remaining <= 0
                      => sessPc' = "done" /\ hist'.outcome = "EXPIRED"
                /\ InTriggerZone(sess'.seconds_remaining) => hist'.armed]_vars

\* a session that saw its expiry while messages were still waiting in the
\* stream buffer
C37_Witness ==
    /\ prog = "auto" /\ sessPc = "done" /\ hist.outcome = "EXPIRED"
    /\ inbox # <<>>
    /\ sess.seconds_remaining <= 0 /\ sess.seconds_remaining = sess.end_time - now

(***************************************************************************)
(* C38: in MarketSniper the decision and the fire belong to one tick with  *)
(* no book update between them.  On the step in which order_executed       *)
(* becomes true the book is the one the tick read, the side chosen from    *)
(* that book has a best ask above 0.50 and strictly below BUY_PRICE, and   *)
(* an order that is submitted carries the token of that side.              *)
(***************************************************************************)
C38_FireOnDecidedBook ==
    [][(prog = "sniper" /\ ~sess.order_executed /\ sess'.order_executed)
       => LET winning == MarketSniper_determine_winning_side(sess)
          IN  /\ sessPc = "tick"
              /\ sess'.best_yes_ask = sess.best_yes_ask
              /\ sess'.best_no_ask = sess.best_no_ask
              /\ winning.kind = "decision"
              /\ winning.price = (IF winning.side = "YES" THEN sess.best_yes_ask
                                                          ELSE sess.best_no_ask)
              /\ winning.price > MS_WIN_PRICE /\ winning.price < MS_BUY_PRICE
              /\ orders' # orders
                    => /\ orders' = Append(orders, orders'[Len(orders')])
                       /\ orders'[Len(orders')].token_id = winning.token_id
                       /\ orders'[Len(orders')].token_id =
                             (IF winning.side = "YES" THEN sess.yes_token_id
                                                      ELSE sess.no_token_id)]_vars

\* MarketSniper fired on the NO side, on a book the receiver task had
\* filled with a YES ask that does not win and a NO ask that does
C38_Witness ==
    /\ prog = "sniper" /\ sess.order_executed /\ orders # <<>>
    /\ orders[Len(orders)].token_id = sess.no_token_id
    /\ sess.best_no_ask = 95 /\ sess.best_yes_ask = 5

====
